---- MODULE Spec2Model ----
(***************************************************************************)
(* A model of the personal-agent package: the agent loop of                *)
(* BasePersonalAgent (initialize, process_message, the background queue    *)
(* consumer, sync_with_cloud, shutdown), the GraphitiEngine entity store,  *)
(* the ZepPersonalMemoryEngine cache / clusters / consolidation, and the   *)
(* keyword intent classifier, the NotionZepBridge synchronisation, the     *)
(* ClaudeCodeExtension command dispatcher, the relevance score of a        *)
(* PersonalMemory and the task store of the A2AManager.                    *)
(*                                                                         *)
(* The subsystems share this module but are explored separately:           *)
(* AgentSpec, GraphSpec, MemorySpec, ConsolidationSpec, SearchSpec,        *)
(* IntentSpec, BridgeSpec, ExtSpec, RelSpec and A2ASpec each drive their   *)
(* own variables and leave the others at their initial values.             *)
(*                                                                         *)
(* Concurrency is asyncio: one thread, and a coroutine runs atomically     *)
(* from one suspension (an await that really waits: a Zep or HTTP call,    *)
(* Queue.get) to the next.  An action of the agent model is one such       *)
(* atomic stretch.                                                         *)
(***************************************************************************)
EXTENDS Integers, Sequences, FiniteSets, TLC

VARIABLES
    \* ---- BasePersonalAgent ----
    state,             \* self.state (AgentState)
    active_protocols,  \* self.context.active_protocols
    a2a_manager,       \* self.a2a_manager: "none" or "set"
    mcp_manager,       \* self.mcp_manager
    graphiti_engine,   \* self.graphiti_engine
    memory_engine,     \* self.memory_engine
    message_queue,     \* self.message_queue (asyncio.Queue, FIFO)
    response_cache,    \* self.response_cache: message_id -> AgentResponse
    stats,             \* self.stats (the two counters process_message owns)
    env,               \* the environment of this run: which integrations fail to load
    initPc,            \* initialize(): "idle", "done" (returned) or "raised"
    consumerPc,        \* _process_message_queue task: "none","start","getting","processing","stopped"
    consumerMsg,       \* the message the consumer is processing
    callerPc,          \* a direct caller of process_message: "idle" or "processing"
    callerMsg,         \* the message of the direct call in flight
    shutdownPc,        \* shutdown(): "idle", "syncing" (inside its sync_with_cloud), "done"
    syncs_in_flight,   \* sync_with_cloud calls (not shutdown's) suspended inside the sync body
    nextMsgId,         \* source of fresh uuid4 message ids
    calls_completed,   \* number of process_message calls that have returned
    lastResponse,      \* the AgentResponse the last completed call returned
    \* ---- GraphitiEngine ----
    entities,          \* self.entities: entity_id -> GraphitiEntity
    edges,             \* self.edges
    episodes,          \* self.episodes: episode_id -> GraphitiEpisode
    clock,             \* datetime.now(), in seconds
    ingest_calls,      \* number of ingest_episode calls that have returned an episode
    last_episode,      \* the GraphitiEpisode the last ingest_episode call returned
    \* ---- ZepPersonalMemoryEngine ----
    zep_client,        \* whether the engine was built with a Zep client
    has_graphiti,      \* whether the engine was built with a Graphiti engine
    enable_clustering, \* config "enable_clustering"
    memory_cache,      \* self.memory_cache: memory_id -> PersonalMemory
    cluster_cache,     \* self.cluster_cache, in insertion order
    mem_stats,         \* self.stats of the memory engine
    zep_working,       \* the Zep working session, as the service holds it
    zep_primary,       \* the Zep primary session
    now_hours,         \* datetime.now(), in hours
    consolidate_result,\* how the last consolidate_memories call ended
    last_search,       \* the last search_memories call: its arguments and outcome
    \* ---- _detect_intent ----
    content,           \* the message text (a sequence of characters)
    intent,            \* the value _detect_intent returned, "none" before the call
    \* ---- NotionZepBridge ----
    sync_in_progress,  \* self.sync_in_progress
    last_sync,         \* self.last_sync: 0 for None, else the time of the last finished sync
    pages_cache,       \* the keys of self.pages_cache
    sync_history,      \* self.sync_history (the SyncResult of each finished sync)
    bridge_stats,      \* self.stats of the bridge
    bridge_cfg,        \* the bridge's configuration and dependencies
    syncCall,          \* each caller's sync_notion_to_zep call: where it is and what it has so far
    sync_calls,        \* number of sync_notion_to_zep calls issued
    last_return,       \* how the last sync_notion_to_zep call to end ended, and what it returned
    bridge_now,        \* datetime.now() as the bridge reads it: later at the end of each sync
    \* ---- ClaudeCodeExtension ----
    ext_cfg,           \* the extension's dependencies and configuration
    commands,          \* self.commands: command name or alias -> handler
    command_history,   \* self.command_history
    ext_calls,         \* number of execute_command calls made
    ext_last,          \* the last execute_command call: its input and what it returned
    \* ---- PersonalMemory.calculate_relevance ----
    rel_memory,        \* the PersonalMemory: its importance and accessed_count
    rel_last,          \* the last calculate_relevance call: its argument and its value
    rel_prev,          \* the call before it
    rel_calls,         \* number of calculate_relevance calls made
    \* ---- A2AManager ----
    a2a_session,       \* self.session is not None
    agent_registry,    \* names with an AgentCard in self.agent_registry
    active_tasks,      \* self.active_tasks: task_id -> A2ATask
    a2a_now,           \* the wall clock, in seconds
    a2a_calls,         \* send_task_to_agent calls that have returned
    a2a_last           \* the last send_task_to_agent call and what it returned

agentVars == <<state, active_protocols, a2a_manager, mcp_manager, graphiti_engine,
               memory_engine, message_queue, response_cache, stats, env, initPc,
               consumerPc, consumerMsg, callerPc, callerMsg, shutdownPc,
               syncs_in_flight, nextMsgId, calls_completed, lastResponse>>
graphVars == <<entities, edges, episodes, clock, ingest_calls, last_episode>>
memVars == <<zep_client, has_graphiti, enable_clustering, memory_cache, cluster_cache, mem_stats, zep_working,
             zep_primary, now_hours, consolidate_result, last_search>>
intentVars == <<content, intent>>
bridgeVars == <<sync_in_progress, last_sync, pages_cache, sync_history, bridge_stats, bridge_cfg, syncCall, sync_calls, last_return, bridge_now>>
extVars == <<ext_cfg, commands, command_history, ext_calls, ext_last>>
relVars == <<rel_memory, rel_last, rel_prev, rel_calls>>
a2aVars == <<a2a_session, agent_registry, active_tasks, a2a_now, a2a_calls, a2a_last>>
vars == <<agentVars, graphVars, memVars, intentVars, bridgeVars, extVars, relVars, a2aVars>>

(***************************************************************************)
(* Bounds of the exploration.                                              *)
(***************************************************************************)
MaxMessages == 2
MaxSyncs == 2

(***************************************************************************)
(* BasePersonalAgent                                                       *)
(***************************************************************************)
AgentState == {"initializing", "ready", "processing", "learning", "syncing",
               "error", "shutdown"}
Protocols == {"a2a", "mcp", "graphiti"}
EmptyId == 0
NoMessage == [id |-> EmptyId, kind |-> "none"]
NoEpisode == [episode_id |-> <<>>, content |-> <<>>, text |-> <<>>]
NoMemStats == [memories_created |-> 0, memories_retrieved |-> 0, clusters_formed |-> 0,
               searches_performed |-> 0, cache_hits |-> 0, cache_misses |-> 0]
NoSearch == [query |-> <<>>, memory_types |-> <<>>, limit |-> 0, returned |-> <<>>,
             cache_matches |-> {}, zep_queried |-> FALSE, raised |-> FALSE]
notAgent == <<graphVars, memVars, intentVars, bridgeVars, extVars, relVars, a2aVars>>
notGraph == <<agentVars, memVars, intentVars, bridgeVars, extVars, relVars, a2aVars>>
notMemory == <<agentVars, graphVars, intentVars, bridgeVars, extVars, relVars, a2aVars>>
notIntent == <<agentVars, graphVars, memVars, bridgeVars, extVars, relVars, a2aVars>>
notBridge == <<agentVars, graphVars, memVars, intentVars, extVars, relVars, a2aVars>>
notExt == <<agentVars, graphVars, memVars, intentVars, bridgeVars, relVars, a2aVars>>
notRel == <<agentVars, graphVars, memVars, intentVars, bridgeVars, extVars, a2aVars>>
notA2A == <<agentVars, graphVars, memVars, intentVars, bridgeVars, extVars, relVars>>
NoResponse == [message_id |-> EmptyId, confidence |-> "none", actions_taken |-> <<>>]

\* ---- A2AManager: values shared by every initial state ----
NoTaskId == <<"none", 0, "none">>
NoSend ==
    [target_agent |-> "none", task_id |-> NoTaskId, reply |-> "none",
     returned |-> FALSE, status |-> "none"]

\* ---- NotionZepBridge: values shared by every initial state ----
\* Two callers of sync_notion_to_zep and the _periodic_sync task.
Callers == {"a", "b", "periodic"}
NoBridgeStats ==
    [total_syncs |-> 0, pages_synced |-> 0, memories_created |-> 0, sync_errors |-> 0]
\* SyncResult(status=...) with its field defaults.
EmptyResult(status) ==
    [status |-> status, pages_processed |-> 0, memories_created |-> 0, errors |-> <<>>]
IdleCall == [pc |-> "idle", pages |-> <<>>, result |-> EmptyResult("pending"),
             notion_failed |-> FALSE]
NoReturn == [caller |-> "none", kind |-> "none", result |-> EmptyResult("pending"),
             notion_failed |-> FALSE]
DefaultBridgeCfg == [access |-> "mock", max_pages_per_sync |-> 2,
                     zep_memory_engine |-> FALSE]

\* ---- PersonalMemory: values shared by every initial state ----
DefaultRelMemory == [importance |-> "medium", accessed_count |-> 0]
NoRelevanceCall == [days_old |-> 0, accessed_count |-> 0, exact |-> FALSE, value |-> 0,
                    lower |-> 0, upper |-> 0]

\* ---- ClaudeCodeExtension: values shared by every initial state ----
DefaultExtCfg == [agent |-> FALSE, memory_engine |-> FALSE, notion_bridge |-> FALSE,
                  enable_history |-> TRUE, max_history |-> 100]
NoExtCall == [command_line |-> <<>>, status |-> "none", message |-> "none",
              detail |-> "none", raised |-> FALSE, handler_raised |-> FALSE]

\* The state of a freshly constructed BasePersonalAgent (__init__), for every
\* choice of enable_a2a / enable_mcp / enable_graphiti.
AgentInit ==
    /\ state = "initializing"
    /\ active_protocols \in [Protocols -> BOOLEAN]
    /\ a2a_manager = "none"
    /\ mcp_manager = "none"
    /\ graphiti_engine = "none"
    /\ memory_engine = "none"
    /\ message_queue = <<>>
    /\ response_cache = <<>>
    /\ stats = [messages_processed |-> 0, errors |-> 0]
    /\ env \in [graphiti_fails : BOOLEAN, memory_fails : BOOLEAN]
    /\ initPc = "idle"
    /\ consumerPc = "none"
    /\ consumerMsg = NoMessage
    /\ callerPc = "idle"
    /\ callerMsg = NoMessage
    /\ shutdownPc = "idle"
    /\ syncs_in_flight = 0
    /\ nextMsgId = 1
    /\ calls_completed = 0
    /\ lastResponse = NoResponse
    /\ entities = <<>> /\ edges = <<>> /\ episodes = <<>> /\ clock = 0
    /\ ingest_calls = 0 /\ last_episode = NoEpisode
    /\ zep_client = FALSE /\ has_graphiti = FALSE /\ enable_clustering = TRUE
    /\ memory_cache = <<>> /\ cluster_cache = <<>>
    /\ mem_stats = NoMemStats /\ zep_working = <<>> /\ zep_primary = <<>>
    /\ now_hours = 0 /\ consolidate_result = "none" /\ last_search = NoSearch
    /\ content = <<>> /\ intent = "none"
    /\ a2a_session = FALSE /\ agent_registry = {} /\ active_tasks = <<>>
    /\ a2a_now = 0 /\ a2a_calls = 0 /\ a2a_last = NoSend
    /\ rel_memory = DefaultRelMemory /\ rel_last = NoRelevanceCall
    /\ rel_prev = NoRelevanceCall /\ rel_calls = 0
    /\ ext_cfg = DefaultExtCfg /\ commands = {} /\ command_history = <<>>
    /\ ext_calls = 0 /\ ext_last = NoExtCall
    /\ sync_in_progress = FALSE /\ last_sync = 0 /\ pages_cache = {}
    /\ sync_history = <<>> /\ bridge_stats = NoBridgeStats
    /\ bridge_cfg = DefaultBridgeCfg /\ syncCall = [c \in Callers |-> IdleCall]
    /\ sync_calls = 0 /\ last_return = NoReturn /\ bridge_now = 1

\* initialize() step 1, _init_a2a: the manager is assigned, A2AManager.initialize()
\* reports its own failures by returning False, and register_capability, which
\* A2AManager does not define, raises AttributeError into the except branch.
InitA2A(enabled) ==
    IF enabled THEN [manager |-> "set", active |-> FALSE]
               ELSE [manager |-> "none", active |-> FALSE]

\* step 2, _init_mcp: MCPManager(agent_id=...) raises TypeError (the constructor
\* takes config_dir only) before the attribute is assigned.
InitMCP(enabled) == [manager |-> "none", active |-> FALSE]

\* step 3, _init_graphiti: the engine is assigned unless creating it raises.
InitGraphiti(enabled, fails) ==
    IF enabled /\ ~fails THEN [manager |-> "set", active |-> TRUE]
                         ELSE [manager |-> "none", active |-> FALSE]

\* A mutant of InitMemoryEngineRaises: the failure is logged and swallowed.
InitMemoryEngineSwallows(e) == FALSE

\* step 4, _init_memory_engine: logs and re-raises.
InitMemoryEngineRaises(e) == e.memory_fails

\* The loop condition of _process_message_queue, evaluated each time the task
\* comes back to the head of the loop.
LoopHead(st) == IF st \in {"shutdown", "error"} THEN "stopped" ELSE "getting"

\* initialize(): runs before anything else uses the agent.
Initialize ==
    /\ initPc = "idle"
    /\ LET a == InitA2A(active_protocols["a2a"])
           m == InitMCP(active_protocols["mcp"])
           g == InitGraphiti(active_protocols["graphiti"], env.graphiti_fails)
       IN /\ a2a_manager' = a.manager
          /\ mcp_manager' = m.manager
          /\ graphiti_engine' = g.manager
          /\ active_protocols' = [p \in Protocols |->
                 CASE p = "a2a" -> a.active
                   [] p = "mcp" -> m.active
                   [] OTHER -> g.active]
    /\ IF InitMemoryEngineRaises(env)
       THEN /\ state' = "error"
            /\ initPc' = "raised"
            /\ UNCHANGED <<memory_engine, consumerPc>>
       ELSE /\ memory_engine' = "set"
            /\ consumerPc' = "start"
            /\ state' = "ready"
            /\ initPc' = "done"
    /\ UNCHANGED notAgent
    /\ UNCHANGED <<message_queue, response_cache, stats, env, consumerMsg, callerPc,
                   callerMsg, shutdownPc, syncs_in_flight, nextMsgId, calls_completed,
                   lastResponse>>

\* A mutant of ProcessFailure: the error path forgets the errors counter.
ProcessFailureNoCount(msg) ==
    /\ stats' = stats
    /\ state' = "error"
    /\ response_cache' = response_cache
    /\ lastResponse' = [message_id |-> IF msg.kind = "msg" THEN msg.id ELSE EmptyId,
                        confidence |-> "0.0",
                        actions_taken |-> <<"error_handling">>]

\* process_message, steps 6 and 7: the response is built, cached and counted.
ProcessSuccess(msg) ==
    /\ response_cache' = (msg.id :> [message_id |-> msg.id, confidence |-> "0.9"])
                            @@ response_cache
    /\ stats' = [stats EXCEPT !.messages_processed = @ + 1]
    /\ state' = "ready"
    /\ lastResponse' = [message_id |-> msg.id,
                        confidence |-> "0.9",
                        actions_taken |-> <<"Generated contextual response">>]

\* process_message, the except branch.
ProcessFailure(msg) ==
    /\ stats' = [stats EXCEPT !.errors = @ + 1]
    /\ state' = "error"
    /\ response_cache' = response_cache
    /\ lastResponse' = [message_id |-> IF msg.kind = "msg" THEN msg.id ELSE EmptyId,
                        confidence |-> "0.0",
                        actions_taken |-> <<"error_handling">>]

\* process_message from the point where the last awaited call resumes, with its
\* result or with the exception it raised, to the return.
ProcessReturn(msg, ok) ==
    /\ IF ok THEN ProcessSuccess(msg) ELSE ProcessFailure(msg)
    /\ calls_completed' = calls_completed + 1

\* message_queue.put(AgentMessage(...)) by any client of the agent.
PutMessage ==
    /\ initPc = "done"
    /\ nextMsgId <= MaxMessages
    /\ message_queue' = Append(message_queue, [id |-> nextMsgId, kind |-> "msg"])
    /\ nextMsgId' = nextMsgId + 1
    /\ UNCHANGED notAgent
    /\ UNCHANGED <<state, active_protocols, a2a_manager, mcp_manager, graphiti_engine,
                   memory_engine, response_cache, stats, env, initPc, consumerPc,
                   consumerMsg, callerPc, callerMsg, shutdownPc, syncs_in_flight,
                   calls_completed, lastResponse>>

\* The consumer task runs for the first time: the while condition.
ConsumerStart ==
    /\ consumerPc = "start"
    /\ consumerPc' = LoopHead(state)
    /\ UNCHANGED notAgent
    /\ UNCHANGED <<state, active_protocols, a2a_manager, mcp_manager, graphiti_engine,
                   memory_engine, message_queue, response_cache, stats, env, initPc,
                   consumerMsg, callerPc, callerMsg, shutdownPc, syncs_in_flight,
                   nextMsgId, calls_completed, lastResponse>>

\* wait_for(message_queue.get(), 1.0) delivers the head of the queue, and
\* process_message runs up to its first awaited call (state = PROCESSING).
ConsumerGet ==
    /\ consumerPc = "getting"
    /\ message_queue # <<>>
    /\ consumerMsg' = Head(message_queue)
    /\ message_queue' = Tail(message_queue)
    /\ state' = "processing"
    /\ consumerPc' = "processing"
    /\ UNCHANGED notAgent
    /\ UNCHANGED <<active_protocols, a2a_manager, mcp_manager, graphiti_engine,
                   memory_engine, response_cache, stats, env, initPc, callerPc,
                   callerMsg, shutdownPc, syncs_in_flight, nextMsgId, calls_completed,
                   lastResponse>>

\* wait_for times out on an empty queue: continue, back to the while condition.
ConsumerTimeout ==
    /\ consumerPc = "getting"
    /\ message_queue = <<>>
    /\ consumerPc' = LoopHead(state)
    /\ UNCHANGED notAgent
    /\ UNCHANGED <<state, active_protocols, a2a_manager, mcp_manager, graphiti_engine,
                   memory_engine, message_queue, response_cache, stats, env, initPc,
                   consumerMsg, callerPc, callerMsg, shutdownPc, syncs_in_flight,
                   nextMsgId, calls_completed, lastResponse>>

\* The consumer's process_message returns and the loop goes back to its head.
ConsumerProcessed ==
    /\ consumerPc = "processing"
    /\ \E ok \in BOOLEAN : ProcessReturn(consumerMsg, ok)
    /\ consumerPc' = LoopHead(state')
    /\ consumerMsg' = NoMessage
    /\ UNCHANGED notAgent
    /\ UNCHANGED <<active_protocols, a2a_manager, mcp_manager, graphiti_engine,
                   memory_engine, message_queue, env, initPc, callerPc, callerMsg,
                   shutdownPc, syncs_in_flight, nextMsgId>>

\* A direct call process_message(m), m a string ("str": a fresh AgentMessage is
\* built around it) or an AgentMessage ("msg"), up to its first awaited call.
CallProcessMessage ==
    /\ initPc = "done"
    /\ callerPc = "idle"
    /\ nextMsgId <= MaxMessages
    /\ \E k \in {"str", "msg"} : callerMsg' = [id |-> nextMsgId, kind |-> k]
    /\ nextMsgId' = nextMsgId + 1
    /\ state' = "processing"
    /\ callerPc' = "processing"
    /\ UNCHANGED notAgent
    /\ UNCHANGED <<active_protocols, a2a_manager, mcp_manager, graphiti_engine,
                   memory_engine, message_queue, response_cache, stats, env, initPc,
                   consumerPc, consumerMsg, shutdownPc, syncs_in_flight,
                   calls_completed, lastResponse>>

\* The direct call returns.
CallProcessed ==
    /\ callerPc = "processing"
    /\ \E ok \in BOOLEAN : ProcessReturn(callerMsg, ok)
    /\ callerPc' = "idle"
    /\ callerMsg' = NoMessage
    /\ UNCHANGED notAgent
    /\ UNCHANGED <<active_protocols, a2a_manager, mcp_manager, graphiti_engine,
                   memory_engine, message_queue, env, initPc, consumerPc, consumerMsg,
                   shutdownPc, syncs_in_flight, nextMsgId>>

\* sync_with_cloud() called by a client: skipped when state is SYNCING, else
\* state = SYNCING and the call suspends in memory_engine.sync_to_cloud().
SyncWithCloud ==
    /\ initPc = "done"
    /\ shutdownPc = "idle"
    /\ syncs_in_flight < MaxSyncs
    /\ IF state = "syncing"
       THEN UNCHANGED <<state, syncs_in_flight>>
       ELSE /\ state' = "syncing"
            /\ syncs_in_flight' = syncs_in_flight + 1
    /\ UNCHANGED notAgent
    /\ UNCHANGED <<active_protocols, a2a_manager, mcp_manager, graphiti_engine,
                   memory_engine, message_queue, response_cache, stats, env, initPc,
                   consumerPc, consumerMsg, callerPc, callerMsg, shutdownPc, nextMsgId,
                   calls_completed, lastResponse>>

\* The end of the sync body: READY, or ERROR when a Zep call raised.
SyncBodyEnd(ok) == state' = IF ok THEN "ready" ELSE "error"

\* A client's sync_with_cloud returns.
SyncReturn ==
    /\ syncs_in_flight > 0
    /\ \E ok \in BOOLEAN : SyncBodyEnd(ok)
    /\ syncs_in_flight' = syncs_in_flight - 1
    /\ UNCHANGED notAgent
    /\ UNCHANGED <<active_protocols, a2a_manager, mcp_manager, graphiti_engine,
                   memory_engine, message_queue, response_cache, stats, env, initPc,
                   consumerPc, consumerMsg, callerPc, callerMsg, shutdownPc, nextMsgId,
                   calls_completed, lastResponse>>

\* shutdown(): state = SHUTDOWN, then sync_with_cloud() at once: its guard reads
\* SHUTDOWN, not SYNCING, so the body starts and sets state = SYNCING before the
\* first suspension.
ShutdownBegin ==
    /\ initPc = "done"
    /\ shutdownPc = "idle"
    /\ state' = "syncing"
    /\ shutdownPc' = "syncing"
    /\ UNCHANGED notAgent
    /\ UNCHANGED <<active_protocols, a2a_manager, mcp_manager, graphiti_engine,
                   memory_engine, message_queue, response_cache, stats, env, initPc,
                   consumerPc, consumerMsg, callerPc, callerMsg, syncs_in_flight,
                   nextMsgId, calls_completed, lastResponse>>

\* shutdown()'s sync_with_cloud returns; mcp_manager is None, the shutdown event
\* has no handler that suspends, and shutdown returns.
ShutdownEnd ==
    /\ shutdownPc = "syncing"
    /\ \E ok \in BOOLEAN : SyncBodyEnd(ok)
    /\ shutdownPc' = "done"
    /\ UNCHANGED notAgent
    /\ UNCHANGED <<active_protocols, a2a_manager, mcp_manager, graphiti_engine,
                   memory_engine, message_queue, response_cache, stats, env, initPc,
                   consumerPc, consumerMsg, callerPc, callerMsg, syncs_in_flight,
                   nextMsgId, calls_completed, lastResponse>>

AgentNext ==
    \/ Initialize
    \/ PutMessage
    \/ ConsumerStart
    \/ ConsumerGet
    \/ ConsumerTimeout
    \/ ConsumerProcessed
    \/ CallProcessMessage
    \/ CallProcessed
    \/ SyncWithCloud
    \/ SyncReturn
    \/ ShutdownBegin
    \/ ShutdownEnd

AgentSpec == AgentInit /\ [][AgentNext]_vars

(***************************************************************************)
(* GraphitiEngine                                                          *)
(***************************************************************************)
MaxMatches == 2
MaxEpisodes == 2
MaxClock == 1

\* The entity types of entity_schemas, in the order the extraction visits
\* them (three of the six: PERSON, PROJECT, TASK).
EntityTypes == <<"person", "project", "task">>
Sources == {"user", "memory_engine"}

\* str.lower(), character by character.
UpperLetters == <<"A", "B", "C", "D", "E", "F", "G", "H", "I", "J", "K", "L", "M">>
    \o <<"N", "O", "P", "Q", "R", "S", "T", "U", "V", "W", "X", "Y", "Z">>
LowerLetters == <<"a", "b", "c", "d", "e", "f", "g", "h", "i", "j", "k", "l", "m">>
    \o <<"n", "o", "p", "q", "r", "s", "t", "u", "v", "w", "x", "y", "z">>
LowerChar(c) ==
    IF \E i \in DOMAIN UpperLetters : UpperLetters[i] = c
    THEN LowerLetters[CHOOSE i \in DOMAIN UpperLetters : UpperLetters[i] = c]
    ELSE c
Lower(s) == [i \in DOMAIN s |-> LowerChar(s[i])]

\* str.strip(): the text without its leading and trailing blanks.
RECURSIVE StripLeft(_)
StripLeft(s) == IF s # <<>> /\ Head(s) = " " THEN StripLeft(Tail(s)) ELSE s
RECURSIVE StripRight(_)
StripRight(s) ==
    IF s # <<>> /\ s[Len(s)] = " " THEN StripRight(SubSeq(s, 1, Len(s) - 1)) ELSE s
Strip(s) == StripRight(StripLeft(s))

\* hash(str) % 10000.  Python's str hash is a process-seeded function of the
\* characters; the stand-in here is the sum of the code points, which like the
\* real one reduced modulo 10000 sends some different strings to one value.
HashModulus == 10000
CodePoint(c) ==
    CASE c = " " -> 32 [] c = "A" -> 65 [] c = "N" -> 78
      [] c = "a" -> 97 [] c = "n" -> 110 [] c = "x" -> 120 [] OTHER -> 63
RECURSIVE SumCodes(_)
SumCodes(s) == IF s = <<>> THEN 0 ELSE CodePoint(Head(s)) + SumCodes(Tail(s))
StrHash(s) == SumCodes(s) % HashModulus

\* The texts the extraction patterns can capture in this model: a name, the
\* same name in another letter case and with a blank to strip, a different
\* name with the same hash, and a capture that is too short to be kept.
Captures == { <<"a", "n">>, <<" ", "A", "N">>, <<"n", "a">>, <<"x">> }

MinEntityNameLen == 2
MaxEntityNameLen == 100

\* A mutant of EntityId: the id is computed from the name as written.
EntityIdCaseSensitive(type, name) == <<type, StrHash(name)>>

\* entity_id = f"{entity_type.value}_{hash(entity_name.lower()) % 10000}"
EntityId(type, name) == <<type, StrHash(Lower(name))>>

TypeIndex(t) == CHOOSE i \in DOMAIN EntityTypes : EntityTypes[i] = t

\* What re.findall yields over the schemas for one text: (type, capture) pairs,
\* grouped by type in schema order.
MatchLists ==
    { m \in UNION { [1..n -> [type : {EntityTypes[i] : i \in DOMAIN EntityTypes},
                              text : Captures]] : n \in 0..MaxMatches } :
        \A i, j \in DOMAIN m : i < j => TypeIndex(m[i].type) <= TypeIndex(m[j].type) }

\* _extract_entities_with_types: the loop over the matches.  ents is
\* self.entities, whose records the loop updates in place; acc is the list it
\* returns.  An element of acc is either the record of self.entities itself
\* (ref = "existing": the same object) or a new GraphitiEntity object.
RECURSIVE ExtractLoop(_, _, _, _, _)
ExtractLoop(matches, ents, acc, ep, t) ==
    IF matches = <<>> THEN [ents |-> ents, list |-> acc]
    ELSE LET m == Head(matches)
             name == Strip(m.text)
             id == EntityId(m.type, name)
         IN IF Len(name) < MinEntityNameLen \/ Len(name) > MaxEntityNameLen
            THEN ExtractLoop(Tail(matches), ents, acc, ep, t)
            ELSE IF id \in DOMAIN ents
            THEN ExtractLoop(Tail(matches),
                     [ents EXCEPT ![id].last_seen = t,
                                  ![id].episode_ids = Append(@, ep)],
                     Append(acc, [ref |-> "existing", entity_id |-> id,
                                  entity_type |-> m.type, name |-> ents[id].name,
                                  last_seen |-> t, episode_ids |-> <<>>]),
                     ep, t)
            ELSE ExtractLoop(Tail(matches), ents,
                     Append(acc, [ref |-> "new", entity_id |-> id,
                                  entity_type |-> m.type, name |-> name,
                                  last_seen |-> t, episode_ids |-> <<ep>>]),
                     ep, t)

\* _infer_relation_type: the rule table on the two entity types, then its
\* reverse, then RELATES_TO.
RelationRule(t1, t2) ==
    CASE t1 = "person" /\ t2 = "project" -> "works_on"
      [] t1 = "person" /\ t2 = "person" -> "collaborates_with"
      [] t1 = "task" /\ t2 = "project" -> "depends_on"
      [] OTHER -> "none"
InferRelationType(t1, t2) ==
    IF RelationRule(t1, t2) # "none" THEN RelationRule(t1, t2)
    ELSE IF RelationRule(t2, t1) # "none" THEN RelationRule(t2, t1)
    ELSE "relates_to"

\* str.find: the lowest index (from 0) at which w occurs in s, -1 if none.
Find(s, w) ==
    LET at == { i \in 0..(Len(s) - Len(w)) : SubSeq(s, i + 1, i + Len(w)) = w }
    IN IF at = {} THEN -1 ELSE CHOOSE i \in at : \A j \in at : i <= j

\* The episode texts of this model, the captures among them: a name twice (in
\* two letter cases), two names five characters apart in a text of seven, two
\* names nineteen characters apart in a text of twenty-one, and a name alone.
Dots(n) == [i \in 1..n |-> "."]
Texts ==
    { <<"a", "n", ",", " ", "A", "N">>,
      <<"n", "a", " ", "x", " ", "a", "n">>,
      <<"a", "n">> \o Dots(17) \o <<"n", "a">>,
      <<"n", "a">> }

\* The matches re.findall can yield over one text: captures are parts of it.
MatchListsOf(text) ==
    { m \in MatchLists : \A i \in DOMAIN m : Find(text, m[i].text) # -1 }

\* Weights are kept in hundredths.
DefaultWeight == 50
MinWeight == 10
TemporalWeight == 80
WeightScale == 100

Abs(x) == IF x < 0 THEN -x ELSE x

\* round(num / den, 2), in hundredths: to the nearest, a tie to the even one.
Round2(num, den) ==
    LET q == (WeightScale * num) \div den
        r == (WeightScale * num) % den
    IN IF 2 * r > den \/ (2 * r = den /\ q % 2 = 1) THEN q + 1 ELSE q

\* A mutant of CalculateRelationWeight: the distance keeps its sign.
RelationWeightSigned(name1, name2, text) ==
    LET pos1 == Find(Lower(text), Lower(name1))
        pos2 == Find(Lower(text), Lower(name2))
    IN IF pos1 = -1 \/ pos2 = -1 THEN DefaultWeight
       ELSE LET distance == pos1 - pos2
                max_distance == Len(text)
            IN IF 10 * (max_distance - distance) < max_distance
               THEN MinWeight
               ELSE Round2(max_distance - distance, max_distance)

\* _calculate_relation_weight(entity1, entity2, content)
CalculateRelationWeight(name1, name2, text) ==
    LET pos1 == Find(Lower(text), Lower(name1))
        pos2 == Find(Lower(text), Lower(name2))
    IN IF pos1 = -1 \/ pos2 = -1 THEN DefaultWeight
       ELSE LET distance == Abs(pos1 - pos2)
                max_distance == Len(text)
            IN IF 10 * (max_distance - distance) < max_distance
               THEN MinWeight
               ELSE Round2(max_distance - distance, max_distance)

\* _infer_temporal_relationships, the co-occurrence part: one edge for each
\* pair of positions i < j of the extracted list.  source_name and target_name
\* are the names of the two entity objects the weight was computed from.
CoOccurrenceEdges(list, text, ep) ==
    LET \* the pairs in the order of the two nested loops
        RECURSIVE Walk(_, _, _)
        Walk(i, j, acc) ==
            IF i > Len(list) THEN acc
            ELSE IF j > Len(list) THEN Walk(i + 1, i + 2, acc)
            ELSE Walk(i, j + 1,
                      Append(acc, [source_id |-> list[i].entity_id,
                                   target_id |-> list[j].entity_id,
                                   relation_type |->
                                       InferRelationType(list[i].entity_type,
                                                         list[j].entity_type),
                                   weight |->
                                       CalculateRelationWeight(list[i].name,
                                                               list[j].name, text),
                                   context |-> text,
                                   source_name |-> list[i].name,
                                   target_name |-> list[j].name,
                                   inferred_from |-> "co_occurrence",
                                   episode_ids |-> <<ep>>]))
    IN Walk(1, 2, <<>>)

\* _infer_temporal_sequence_relations: a TEMPORAL_FOLLOWS chain through the
\* extracted entities of each of the types TASK, MEETING, PROJECT.
TemporalTypes == <<"task", "project">>
ChainEdges(type_entities, ep) ==
    [i \in 1..(Len(type_entities) - 1) |->
        [source_id |-> type_entities[i].entity_id,
         target_id |-> type_entities[i + 1].entity_id,
         relation_type |-> "temporal_follows",
         weight |-> TemporalWeight,
         inferred_from |-> "temporal_sequence",
         episode_ids |-> <<ep>>]]
TemporalSequenceEdges(list, ep) ==
    LET OfType(t) == SelectSeq(list, LAMBDA e : e.entity_type = t)
    IN ChainEdges(OfType(TemporalTypes[1]), ep) \o ChainEdges(OfType(TemporalTypes[2]), ep)

\* _update_local_graph, the loop over the extracted list.  For an element that
\* is the stored record itself, "existing.episode_ids.extend(entity.episode_ids)"
\* extends the list by itself.
RECURSIVE UpdateLoop(_, _)
UpdateLoop(list, ents) ==
    IF list = <<>> THEN ents
    ELSE LET e == Head(list)
             id == e.entity_id
         IN IF id \in DOMAIN ents
            THEN LET added == IF e.ref = "existing" THEN ents[id].episode_ids
                                                    ELSE e.episode_ids
                     seen == IF e.ref = "existing" THEN ents[id].last_seen
                                                   ELSE e.last_seen
                 IN UpdateLoop(Tail(list),
                        [ents EXCEPT ![id].last_seen = seen,
                                     ![id].episode_ids = @ \o added])
            ELSE UpdateLoop(Tail(list),
                     (id :> [entity_type |-> e.entity_type, name |-> e.name,
                             last_seen |-> e.last_seen,
                             episode_ids |-> e.episode_ids]) @@ ents)

\* episode_id = f"ep_{now:%Y%m%d_%H%M%S}_{source}"
EpisodeId(t, source) == <<t, source>>

\* A fresh GraphitiEngine.
GraphInit ==
    /\ entities = <<>> /\ edges = <<>> /\ episodes = <<>> /\ clock = 0
    /\ ingest_calls = 0 /\ last_episode = NoEpisode
    /\ state = "initializing"
    /\ active_protocols = [p \in Protocols |-> FALSE]
    /\ a2a_manager = "none" /\ mcp_manager = "none"
    /\ graphiti_engine = "none" /\ memory_engine = "none"
    /\ message_queue = <<>> /\ response_cache = <<>>
    /\ stats = [messages_processed |-> 0, errors |-> 0]
    /\ env = [graphiti_fails |-> FALSE, memory_fails |-> FALSE]
    /\ initPc = "idle" /\ consumerPc = "none" /\ consumerMsg = NoMessage
    /\ callerPc = "idle" /\ callerMsg = NoMessage /\ shutdownPc = "idle"
    /\ syncs_in_flight = 0 /\ nextMsgId = 1 /\ calls_completed = 0
    /\ lastResponse = NoResponse
    /\ zep_client = FALSE /\ has_graphiti = FALSE /\ enable_clustering = TRUE
    /\ memory_cache = <<>> /\ cluster_cache = <<>>
    /\ mem_stats = NoMemStats /\ zep_working = <<>> /\ zep_primary = <<>>
    /\ now_hours = 0 /\ consolidate_result = "none" /\ last_search = NoSearch
    /\ content = <<>> /\ intent = "none"
    /\ a2a_session = FALSE /\ agent_registry = {} /\ active_tasks = <<>>
    /\ a2a_now = 0 /\ a2a_calls = 0 /\ a2a_last = NoSend
    /\ rel_memory = DefaultRelMemory /\ rel_last = NoRelevanceCall
    /\ rel_prev = NoRelevanceCall /\ rel_calls = 0
    /\ ext_cfg = DefaultExtCfg /\ commands = {} /\ command_history = <<>>
    /\ ext_calls = 0 /\ ext_last = NoExtCall
    /\ sync_in_progress = FALSE /\ last_sync = 0 /\ pages_cache = {}
    /\ sync_history = <<>> /\ bridge_stats = NoBridgeStats
    /\ bridge_cfg = DefaultBridgeCfg /\ syncCall = [c \in Callers |-> IdleCall]
    /\ sync_calls = 0 /\ last_return = NoReturn /\ bridge_now = 1

\* ingest_episode(content, source): extraction, relation inference, graph
\* update, episode storage.
IngestEpisode ==
    /\ ingest_calls < MaxEpisodes
    /\ \E text \in Texts, source \in Sources : \E matches \in MatchListsOf(text) :
        LET ep == EpisodeId(clock, source)
            x == ExtractLoop(matches, entities, <<>>, ep, clock)
            rel == CoOccurrenceEdges(x.list, text, ep)
                   \o TemporalSequenceEdges(x.list, ep)
        IN /\ entities' = UpdateLoop(x.list, x.ents)
           /\ edges' = edges \o rel
           /\ episodes' = (ep :> [source |-> source,
                                  entities_extracted |-> Len(x.list),
                                  processed |-> TRUE]) @@ episodes
           /\ last_episode' = [episode_id |-> ep, content |-> matches, text |-> text]
    /\ ingest_calls' = ingest_calls + 1
    /\ UNCHANGED clock
    /\ UNCHANGED notGraph

\* Time passes between two calls.
GraphTick ==
    /\ clock < MaxClock
    /\ clock' = clock + 1
    /\ UNCHANGED <<entities, edges, episodes, ingest_calls, last_episode>>
    /\ UNCHANGED notGraph

GraphNext ==
    \/ IngestEpisode
    \/ GraphTick

GraphSpec == GraphInit /\ [][GraphNext]_vars

(***************************************************************************)
(* ZepPersonalMemoryEngine                                                 *)
(***************************************************************************)
MaxMemories == 3
MaxCached == 2
MaxExternal == 1
MaxPrimary == 2
MaxHours == 25

Importances == {"critical", "high", "medium", "low", "transient"}
\* The entity names Graphiti can hand to add_memory in this model.
Keywords == {"k1", "k2"}
\* The text and the types add_memory is called with in this model; the type
\* defaults to MemoryType.EPISODIC.
DefaultContent == <<"P", "y">>
DefaultMemoryType == "episodic"
MemoryTypes == {"episodic", "semantic"}
NoTTL == -1
NoCreatedAt == -1
TransientTTL == 24
FetchLimit == 50
\* Cluster importance scores are kept in tenths.
ScoreMedium == 5
ScoreOther == 8
ScoreCap == 10

\* A mutant of PromotedImportance: CRITICAL is left out of the test.
PromotedImportanceHighOnly(importance) == importance = "high"

\* "importance in [MemoryImportance.HIGH, MemoryImportance.CRITICAL]"
PromotedImportance(importance) == importance \in {"high", "critical"}

\* A mutant of SessionFor: only CRITICAL goes to the primary session.
SessionForCriticalOnly(importance) ==
    IF importance = "critical" THEN "primary" ELSE "working"

\* add_memory: MemoryContext.session_id
SessionFor(importance) ==
    IF importance \in {"critical", "high"} THEN "primary" ELSE "working"

\* add_memory: MemoryContext.ttl_hours
TTLFor(importance) == IF importance = "transient" THEN TransientTTL ELSE NoTTL

\* A mutant of FoundCluster: the scan does not stop at the first match.
FoundClusterLast(clusters, ents) ==
    LET hits == { i \in DOMAIN clusters : clusters[i].keywords \cap ents # {} }
    IN IF hits = {} THEN 0 ELSE CHOOSE i \in hits : \A j \in hits : i >= j

\* _update_clusters: the search loop with its break.  The first cluster, in the
\* order of cluster_cache.values(), whose keywords share an element with the
\* entities; 0 when there is none.
FoundCluster(clusters, ents) ==
    LET hits == { i \in DOMAIN clusters : clusters[i].keywords \cap ents # {} }
    IN IF hits = {} THEN 0 ELSE CHOOSE i \in hits : \A j \in hits : i <= j

\* dict assignment d[key] = value on an insertion-ordered dict of clusters.
ClusterPut(clusters, c) ==
    IF \E i \in DOMAIN clusters : clusters[i].cluster_id = c.cluster_id
    THEN [i \in DOMAIN clusters |->
             IF clusters[i].cluster_id = c.cluster_id THEN c ELSE clusters[i]]
    ELSE Append(clusters, c)

\* _update_clusters(memory): the new value of cluster_cache and of
\* stats["clusters_formed"].
UpdateClusters(clusters, formed, id, ents, importance) ==
    LET found == FoundCluster(clusters, ents)
    IN IF found # 0
       THEN [clusters |-> [clusters EXCEPT
                              ![found].memory_ids = Append(@, id),
                              ![found].keywords = @ \cup ents],
             formed |-> formed]
       ELSE [clusters |-> ClusterPut(clusters,
                              [cluster_id |-> Len(clusters),
                               memory_ids |-> <<id>>,
                               keywords |-> ents,
                               importance_score |->
                                   IF importance = "medium" THEN ScoreMedium
                                                            ELSE ScoreOther]),
             formed |-> formed + 1]

\* The configurations of a fresh ZepPersonalMemoryEngine.
MemoryInit ==
    /\ zep_client \in BOOLEAN
    /\ has_graphiti \in BOOLEAN
    /\ enable_clustering \in BOOLEAN
    /\ memory_cache = <<>> /\ cluster_cache = <<>>
    /\ mem_stats = NoMemStats /\ zep_working = <<>> /\ zep_primary = <<>>
    /\ now_hours = 0 /\ consolidate_result = "none" /\ last_search = NoSearch
    /\ entities = <<>> /\ edges = <<>> /\ episodes = <<>> /\ clock = 0
    /\ ingest_calls = 0 /\ last_episode = NoEpisode
    /\ state = "initializing"
    /\ active_protocols = [p \in Protocols |-> FALSE]
    /\ a2a_manager = "none" /\ mcp_manager = "none"
    /\ graphiti_engine = "none" /\ memory_engine = "none"
    /\ message_queue = <<>> /\ response_cache = <<>>
    /\ stats = [messages_processed |-> 0, errors |-> 0]
    /\ env = [graphiti_fails |-> FALSE, memory_fails |-> FALSE]
    /\ initPc = "idle" /\ consumerPc = "none" /\ consumerMsg = NoMessage
    /\ callerPc = "idle" /\ callerMsg = NoMessage /\ shutdownPc = "idle"
    /\ syncs_in_flight = 0 /\ nextMsgId = 1 /\ calls_completed = 0
    /\ lastResponse = NoResponse
    /\ content = <<>> /\ intent = "none"
    /\ a2a_session = FALSE /\ agent_registry = {} /\ active_tasks = <<>>
    /\ a2a_now = 0 /\ a2a_calls = 0 /\ a2a_last = NoSend
    /\ rel_memory = DefaultRelMemory /\ rel_last = NoRelevanceCall
    /\ rel_prev = NoRelevanceCall /\ rel_calls = 0
    /\ ext_cfg = DefaultExtCfg /\ commands = {} /\ command_history = <<>>
    /\ ext_calls = 0 /\ ext_last = NoExtCall
    /\ sync_in_progress = FALSE /\ last_sync = 0 /\ pages_cache = {}
    /\ sync_history = <<>> /\ bridge_stats = NoBridgeStats
    /\ bridge_cfg = DefaultBridgeCfg /\ syncCall = [c \in Callers |-> IdleCall]
    /\ sync_calls = 0 /\ last_return = NoReturn /\ bridge_now = 1

\* add_memory(content, importance=...) that returns the memory.  ents is what
\* Graphiti extracted from the content ([] without a Graphiti engine).  The
\* memory id is a digest of user, content and the current microsecond: fresh.
AddMemoryUpTo(limit, importances, contents, types, entity_sets) ==
    /\ mem_stats.memories_created < limit
    /\ \E importance \in importances, text \in contents, memory_type \in types,
          ents \in (IF has_graphiti THEN entity_sets ELSE {{}}) :
        LET id == mem_stats.memories_created + 1
            session == SessionFor(importance)
            rec == [memory_id |-> id, importance |-> importance,
                    memory_type |-> memory_type, content |-> text, entities |-> ents,
                    created_at |-> now_hours]
            cl == IF enable_clustering
                  THEN UpdateClusters(cluster_cache, mem_stats.clusters_formed,
                                      id, ents, importance)
                  ELSE [clusters |-> cluster_cache,
                        formed |-> mem_stats.clusters_formed]
        IN /\ zep_working' = IF zep_client /\ session = "working"
                             THEN Append(zep_working, rec) ELSE zep_working
           /\ zep_primary' = IF zep_client /\ session = "primary"
                             THEN Append(zep_primary, rec) ELSE zep_primary
           /\ memory_cache' = (id :> [importance |-> importance,
                                      session |-> session,
                                      ttl_hours |-> TTLFor(importance),
                                      created_at |-> now_hours,
                                      entities |-> ents,
                                      memory_type |-> memory_type,
                                      content |-> text,
                                      accessed_count |-> 0]) @@ memory_cache
           /\ cluster_cache' = cl.clusters
           /\ mem_stats' = [mem_stats EXCEPT !.memories_created = id,
                                              !.clusters_formed = cl.formed]
    /\ UNCHANGED <<zep_client, has_graphiti, enable_clustering, now_hours,
                   consolidate_result, last_search>>
    /\ UNCHANGED notMemory

AddMemory == AddMemoryUpTo(MaxMemories, Importances, {DefaultContent}, {DefaultMemoryType},
                  SUBSET Keywords)

\* The same call, in the runs where consolidation and time are also at work.
AddMemoryCached ==
    AddMemoryUpTo(MaxCached, Importances, {DefaultContent}, {DefaultMemoryType},
                  SUBSET Keywords)

\* add_memory whose Zep call raises: the exception propagates before the cache,
\* the clusters and the counter are touched.
AddMemoryFails ==
    /\ zep_client
    /\ UNCHANGED memVars
    /\ UNCHANGED notMemory

\* Another writer (the Zep service is shared) adds a record to the working
\* session, with any importance metadata or none.
ZepExternalWrite ==
    /\ zep_client
    /\ LET written == Cardinality({ i \in DOMAIN zep_working :
                                       zep_working[i].memory_id < 0 })
       IN /\ written < MaxExternal
          /\ \E importance \in Importances \cup {"absent"} :
                zep_working' = Append(zep_working, [memory_id |-> -(written + 1),
                                                    importance |-> importance,
                                                    memory_type |-> "absent",
                                                    content |-> DefaultContent,
                                                    entities |-> {},
                                                    created_at |-> NoCreatedAt])
    /\ UNCHANGED <<zep_client, has_graphiti, enable_clustering, memory_cache,
                   cluster_cache, mem_stats, zep_primary, now_hours,
                   consolidate_result, last_search>>
    /\ UNCHANGED notMemory

\* Time passes.
TickSteps == {24, 25}
MemoryTick ==
    /\ \E dt \in TickSteps :
        /\ now_hours + dt <= MaxHours
        /\ now_hours' = now_hours + dt
    /\ UNCHANGED <<zep_client, has_graphiti, enable_clustering, memory_cache,
                   cluster_cache, mem_stats, zep_working, zep_primary,
                   consolidate_result, last_search>>
    /\ UNCHANGED notMemory

\* zep_client.memory.get_memory(session_id, limit=50)
Fetch(session) == SubSeq(session, 1, IF Len(session) < FetchLimit THEN Len(session)
                                                                  ELSE FetchLimit)

\* consolidate_memories, step 1: the promotion loop over the fetched records.
\* failAt = k > 0: the k-th add_memory call to Zep raises, which ends the loop
\* and the consolidation.
RECURSIVE PromoteLoop(_, _, _, _)
PromoteLoop(fetched, primary, calls, failAt) ==
    IF fetched = <<>> THEN [primary |-> primary, ok |-> TRUE]
    ELSE LET m == Head(fetched)
             importance == IF m.importance = "absent" THEN "low" ELSE m.importance
         IN IF PromotedImportance(importance)
            THEN IF calls + 1 = failAt
                 THEN [primary |-> primary, ok |-> FALSE]
                 ELSE PromoteLoop(Tail(fetched), Append(primary, m), calls + 1, failAt)
            ELSE PromoteLoop(Tail(fetched), primary, calls, failAt)

\* step 2: a cached record with a TTL older than its TTL.
Expired(m, t) == m.ttl_hours # NoTTL /\ m.ttl_hours # 0 /\ t - m.created_at > m.ttl_hours
Restrict(f, keep) == [k \in keep |-> f[k]]

\* step 3: cluster.importance_score = min(len(memory_ids) * 0.1, 1.0)
Rescore(clusters) ==
    [i \in DOMAIN clusters |->
        [clusters[i] EXCEPT !.importance_score =
            IF Len(clusters[i].memory_ids) < ScoreCap
            THEN Len(clusters[i].memory_ids) ELSE ScoreCap]]

\* consolidate_memories().  fetchFails: get_memory raises.
ConsolidateMemories ==
    /\ Len(zep_primary) < MaxPrimary
    /\ IF ~zep_client
       THEN /\ consolidate_result' = "no_client"
            /\ UNCHANGED <<zep_primary, memory_cache, cluster_cache>>
       ELSE \E fetchFails \in BOOLEAN, failAt \in 0..Len(zep_working) :
              IF fetchFails
              THEN /\ consolidate_result' = "failed"
                   /\ UNCHANGED <<zep_primary, memory_cache, cluster_cache>>
              ELSE LET p == PromoteLoop(Fetch(zep_working), zep_primary, 0, failAt)
                   IN /\ zep_primary' = p.primary
                      /\ IF p.ok
                         THEN /\ memory_cache' = Restrict(memory_cache,
                                     { k \in DOMAIN memory_cache :
                                         ~Expired(memory_cache[k], now_hours) })
                              /\ cluster_cache' = IF enable_clustering
                                                  THEN Rescore(cluster_cache)
                                                  ELSE cluster_cache
                              /\ consolidate_result' = "completed"
                         ELSE /\ consolidate_result' = "failed"
                              /\ UNCHANGED <<memory_cache, cluster_cache>>
    /\ UNCHANGED <<zep_client, has_graphiti, enable_clustering, mem_stats,
                   zep_working, now_hours, last_search>>
    /\ UNCHANGED notMemory

\* The engine as the agent uses it while it handles messages.
MemoryNext ==
    \/ AddMemory
    \/ AddMemoryFails

MemorySpec == MemoryInit /\ [][MemoryNext]_vars

\* The engine built without a Graphiti engine (the constructor's default), with
\* its periodic consolidation task and the passing of time.
ConsolidationInit ==
    /\ MemoryInit
    /\ ~has_graphiti

ConsolidationNext ==
    \/ AddMemoryCached
    \/ AddMemoryFails
    \/ ZepExternalWrite
    \/ MemoryTick
    \/ ConsolidateMemories

ConsolidationSpec == ConsolidationInit /\ [][ConsolidationNext]_vars

(***************************************************************************)
(* BasePersonalAgent._detect_intent                                        *)
(***************************************************************************)
MaxPhrases == 3

\* The phrases a message is made of in this model, joined by single blanks.
Phrases ==
    { <<"W", "h", "a", "t">>,
      <<"d", "i", "d", " ", "I", " ", "s", "a", "y">>,
      <<"y", "e", "s", "t", "e", "r", "d", "a", "y", "?">>,
      <<"R", "e", "m", "e", "m", "b", "e", "r", " ", "t", "h", "i", "s">>,
      <<"f", "o", "r", " ", "l", "a", "t", "e", "r">>,
      <<"R", "e", "a", "d">>,
      <<"t", "h", "e", " ", "f", "i", "l", "e">>,
      <<"R", "u", "n">>,
      <<"w", "i", "n", "d", "o", "w">>,
      <<"H", "e", "l", "l", "o", " ", "t", "h", "e", "r", "e">>,
      <<"T", "e", "l", "l", " ", "m", "e", " ", "a", "b", "o", "u", "t">>,
      <<"R", "E", "C", "A", "L", "L">> }

RECURSIVE Join(_)
Join(ps) == IF Len(ps) = 0 THEN <<>>
            ELSE IF Len(ps) = 1 THEN ps[1]
            ELSE ps[1] \o <<" ">> \o Join(Tail(ps))

Messages ==
    { Join(ps) : ps \in UNION { [1..n -> Phrases] : n \in 0..MaxPhrases } }

\* "word in content_lower": substring test.
Contains(s, w) ==
    \E i \in 1..(Len(s) - Len(w) + 1) : SubSeq(s, i, i + Len(w) - 1) = w

\* any(word in content_lower for word in [...])
AnyWordIn(ws, s) == \E w \in ws : Contains(s, w)

TaskWords ==
    { <<"d", "o">>,
      <<"e", "x", "e", "c", "u", "t", "e">>,
      <<"r", "u", "n">>,
      <<"p", "e", "r", "f", "o", "r", "m">>,
      <<"t", "a", "s", "k">> }
KnowledgeWords ==
    { <<"w", "h", "o">>,
      <<"w", "h", "a", "t">>,
      <<"w", "h", "e", "n">>,
      <<"w", "h", "e", "r", "e">>,
      <<"t", "e", "l", "l", " ", "m", "e", " ", "a", "b", "o", "u", "t">> }
FileWords ==
    { <<"f", "i", "l", "e">>,
      <<"f", "o", "l", "d", "e", "r">>,
      <<"d", "i", "r", "e", "c", "t", "o", "r", "y">>,
      <<"r", "e", "a", "d">>,
      <<"w", "r", "i", "t", "e">> }
MemoryWords ==
    { <<"r", "e", "m", "e", "m", "b", "e", "r">>,
      <<"r", "e", "c", "a", "l", "l">>,
      <<"m", "e", "m", "o", "r", "y">>,
      <<"d", "i", "d", " ", "i">> }

\* A mutant of DetectIntent: the memory bucket is tested before the others.
DetectIntentMemoryFirst(text) ==
    LET content_lower == Lower(text)
    IN IF AnyWordIn(MemoryWords, content_lower) THEN "memory_query"
       ELSE IF AnyWordIn(TaskWords, content_lower) THEN "task_execution"
       ELSE IF AnyWordIn(KnowledgeWords, content_lower) THEN "knowledge_query"
       ELSE IF AnyWordIn(FileWords, content_lower) THEN "file_operation"
       ELSE "general_conversation"

DetectIntent(text) ==
    LET content_lower == Lower(text)
    IN IF AnyWordIn(TaskWords, content_lower) THEN "task_execution"
       ELSE IF AnyWordIn(KnowledgeWords, content_lower) THEN "knowledge_query"
       ELSE IF AnyWordIn(FileWords, content_lower) THEN "file_operation"
       ELSE IF AnyWordIn(MemoryWords, content_lower) THEN "memory_query"
       ELSE "general_conversation"

\* A message that has not been classified yet.
IntentInit ==
    /\ content \in Messages /\ intent = "none"
    /\ a2a_session = FALSE /\ agent_registry = {} /\ active_tasks = <<>>
    /\ a2a_now = 0 /\ a2a_calls = 0 /\ a2a_last = NoSend
    /\ rel_memory = DefaultRelMemory /\ rel_last = NoRelevanceCall
    /\ rel_prev = NoRelevanceCall /\ rel_calls = 0
    /\ ext_cfg = DefaultExtCfg /\ commands = {} /\ command_history = <<>>
    /\ ext_calls = 0 /\ ext_last = NoExtCall
    /\ sync_in_progress = FALSE /\ last_sync = 0 /\ pages_cache = {}
    /\ sync_history = <<>> /\ bridge_stats = NoBridgeStats
    /\ bridge_cfg = DefaultBridgeCfg /\ syncCall = [c \in Callers |-> IdleCall]
    /\ sync_calls = 0 /\ last_return = NoReturn /\ bridge_now = 1
    /\ zep_client = FALSE /\ has_graphiti = FALSE /\ enable_clustering = TRUE
    /\ memory_cache = <<>> /\ cluster_cache = <<>>
    /\ mem_stats = NoMemStats /\ zep_working = <<>> /\ zep_primary = <<>>
    /\ now_hours = 0 /\ consolidate_result = "none" /\ last_search = NoSearch
    /\ entities = <<>> /\ edges = <<>> /\ episodes = <<>> /\ clock = 0
    /\ ingest_calls = 0 /\ last_episode = NoEpisode
    /\ state = "initializing"
    /\ active_protocols = [p \in Protocols |-> FALSE]
    /\ a2a_manager = "none" /\ mcp_manager = "none"
    /\ graphiti_engine = "none" /\ memory_engine = "none"
    /\ message_queue = <<>> /\ response_cache = <<>>
    /\ stats = [messages_processed |-> 0, errors |-> 0]
    /\ env = [graphiti_fails |-> FALSE, memory_fails |-> FALSE]
    /\ initPc = "idle" /\ consumerPc = "none" /\ consumerMsg = NoMessage
    /\ callerPc = "idle" /\ callerMsg = NoMessage /\ shutdownPc = "idle"
    /\ syncs_in_flight = 0 /\ nextMsgId = 1 /\ calls_completed = 0
    /\ lastResponse = NoResponse

\* _detect_intent(content)
DetectIntentCall ==
    /\ intent' = DetectIntent(content)
    /\ UNCHANGED content
    /\ UNCHANGED notIntent

IntentNext == DetectIntentCall

IntentSpec == IntentInit /\ [][IntentNext]_vars

(***************************************************************************)
(* NotionZepBridge                                                         *)
(***************************************************************************)
MaxSyncCalls == 3
MaxPages == 2

HistoryLimit == 10
Pages == {"p1", "p2"}
MockPages == <<"mock-page-1", "mock-page-2">>
\* What Notion can answer to a discovery, after the filters of
\* _discover_pages_to_sync: any short list of pages.
PageLists == UNION { [1..n -> Pages] : n \in 0..MaxPages }
Take(list, n) == SubSeq(list, 1, IF Len(list) < n THEN Len(list) ELSE n)

\* A mutant of SyncRejected: the guard is not there.
SyncNeverRejected(in_progress) == FALSE

\* "if self.sync_in_progress:"
SyncRejected(in_progress) == in_progress

\* A mutant of RejectedResult: the rejection carries no error message.
RejectedResultSilent(status) == EmptyResult(status)

\* SyncResult(status=SyncStatus.FAILED, errors=["Sync already in progress"])
RejectedResult(status) ==
    [EmptyResult(status) EXCEPT !.errors = <<"Sync already in progress">>]

\* The bridge after construction, with or without a memory engine and with
\* MCP access to Notion or none (mock mode); no Graphiti engine is attached.
BridgeInit ==
    /\ sync_in_progress = FALSE /\ last_sync = 0 /\ pages_cache = {}
    /\ sync_history = <<>> /\ bridge_stats = NoBridgeStats
    /\ bridge_cfg \in [access : {"mcp", "mock"}, max_pages_per_sync : 1..MaxPages,
                       zep_memory_engine : BOOLEAN]
    /\ syncCall = [c \in Callers |-> IdleCall]
    /\ sync_calls = 0 /\ last_return = NoReturn /\ bridge_now = 1
    /\ state = "initializing"
    /\ active_protocols = [p \in Protocols |-> FALSE]
    /\ a2a_manager = "none" /\ mcp_manager = "none"
    /\ graphiti_engine = "none" /\ memory_engine = "none"
    /\ message_queue = <<>> /\ response_cache = <<>>
    /\ stats = [messages_processed |-> 0, errors |-> 0]
    /\ env = [graphiti_fails |-> FALSE, memory_fails |-> FALSE]
    /\ initPc = "idle" /\ consumerPc = "none" /\ consumerMsg = NoMessage
    /\ callerPc = "idle" /\ callerMsg = NoMessage /\ shutdownPc = "idle"
    /\ syncs_in_flight = 0 /\ nextMsgId = 1 /\ calls_completed = 0
    /\ lastResponse = NoResponse
    /\ entities = <<>> /\ edges = <<>> /\ episodes = <<>> /\ clock = 0
    /\ ingest_calls = 0 /\ last_episode = NoEpisode
    /\ zep_client = FALSE /\ has_graphiti = FALSE /\ enable_clustering = TRUE
    /\ memory_cache = <<>> /\ cluster_cache = <<>>
    /\ mem_stats = NoMemStats /\ zep_working = <<>> /\ zep_primary = <<>>
    /\ now_hours = 0 /\ consolidate_result = "none" /\ last_search = NoSearch
    /\ content = <<>> /\ intent = "none"
    /\ a2a_session = FALSE /\ agent_registry = {} /\ active_tasks = <<>>
    /\ a2a_now = 0 /\ a2a_calls = 0 /\ a2a_last = NoSend
    /\ rel_memory = DefaultRelMemory /\ rel_last = NoRelevanceCall
    /\ rel_prev = NoRelevanceCall /\ rel_calls = 0
    /\ ext_cfg = DefaultExtCfg /\ commands = {} /\ command_history = <<>>
    /\ ext_calls = 0 /\ ext_last = NoExtCall

\* sync_notion_to_zep(), from the call to its first await: the guard, then
\* either the rejection or the flag and the start of the discovery.
SyncEnter(c) ==
    /\ syncCall[c].pc = "idle"
    /\ sync_calls < MaxSyncCalls
    /\ sync_calls' = sync_calls + 1
    /\ IF SyncRejected(sync_in_progress)
       THEN /\ last_return' = [caller |-> c, kind |-> "rejected",
                               result |-> RejectedResult("failed"),
                               notion_failed |-> FALSE]
            /\ UNCHANGED <<sync_in_progress, syncCall>>
       ELSE /\ sync_in_progress' = TRUE
            /\ syncCall' = [syncCall EXCEPT ![c] =
                               [pc |-> "discovering", pages |-> <<>>,
                                result |-> EmptyResult("in_progress"),
                                notion_failed |-> FALSE]]
            /\ UNCHANGED last_return
    /\ UNCHANGED <<last_sync, pages_cache, sync_history, bridge_stats, bridge_cfg,
                   bridge_now>>

\* A caller awaits bridge.sync_notion_to_zep().
SyncNotionToZep ==
    /\ \E c \in Callers \ {"periodic"} : SyncEnter(c)
    /\ UNCHANGED notBridge

\* _periodic_sync wakes from its sleep and finds no sync in progress.
PeriodicSync ==
    /\ ~sync_in_progress
    /\ SyncEnter("periodic")
    /\ UNCHANGED notBridge

\* _periodic_sync wakes while a sync is in progress and goes back to sleep.
PeriodicSkip ==
    /\ sync_in_progress
    /\ syncCall["periodic"].pc = "idle"
    /\ UNCHANGED bridgeVars
    /\ UNCHANGED notBridge

\* _discover_pages_to_sync returns.  With MCP access the tool call may raise:
\* the except branch logs it and returns [].
DiscoverPages ==
    /\ \E c \in Callers :
        /\ syncCall[c].pc = "discovering"
        /\ \E found \in (IF bridge_cfg.access = "mock" THEN {MockPages} ELSE PageLists),
              raises \in (IF bridge_cfg.access = "mock" THEN {FALSE} ELSE BOOLEAN) :
            syncCall' = [syncCall EXCEPT
                ![c].pc = "processing",
                ![c].pages = IF raises THEN <<>>
                             ELSE Take(found, bridge_cfg.max_pages_per_sync),
                ![c].notion_failed = raises]
    /\ UNCHANGED <<sync_in_progress, last_sync, pages_cache, sync_history,
                   bridge_stats, bridge_cfg, sync_calls, last_return, bridge_now>>
    /\ UNCHANGED notBridge

\* What can happen to one page: it is synced; _extract_page_content returns
\* None because the content is short ("skipped") or because its tool call
\* raised ("notion_error"); or the memory engine's add_memory raises ("error").
PageOutcomes ==
    {"ok"}
    \cup (IF bridge_cfg.access = "mcp" THEN {"skipped", "notion_error"} ELSE {})
    \cup (IF bridge_cfg.zep_memory_engine THEN {"error"} ELSE {})

\* One iteration of the page loop.
ProcessPage ==
    /\ \E c \in Callers :
        /\ syncCall[c].pc = "processing"
        /\ syncCall[c].pages # <<>>
        /\ \E outcome \in PageOutcomes :
            LET page == Head(syncCall[c].pages)
                r == syncCall[c].result
            IN /\ syncCall' = [syncCall EXCEPT
                    ![c].pages = Tail(@),
                    ![c].notion_failed = @ \/ outcome = "notion_error",
                    ![c].result =
                        CASE outcome = "ok" ->
                               [r EXCEPT !.pages_processed = @ + 1,
                                         !.memories_created =
                                             IF bridge_cfg.zep_memory_engine
                                             THEN @ + 1 ELSE @]
                          [] outcome = "error" ->
                               [r EXCEPT !.errors = Append(@, "Error processing page")]
                          [] OTHER -> r]
               /\ pages_cache' = IF outcome = "ok" THEN pages_cache \cup {page}
                                                   ELSE pages_cache
    /\ UNCHANGED <<sync_in_progress, last_sync, sync_history, bridge_stats,
                   bridge_cfg, sync_calls, last_return, bridge_now>>
    /\ UNCHANGED notBridge

\* A mutant of FinalStatus: any error makes the sync FAILED.
FinalStatusAllOrNothing(r) == IF r.errors # <<>> THEN "failed" ELSE "completed"

\* The status of a sync that reached its finalisation.
FinalStatus(r) ==
    IF r.errors # <<>>
    THEN IF r.pages_processed > 0 THEN "partial" ELSE "failed"
    ELSE "completed"

\* self.sync_history.append(...) and the cut to the last ten.
Remember(history, r) ==
    LET h == Append(history, r)
    IN IF Len(h) > HistoryLimit THEN SubSeq(h, Len(h) - HistoryLimit + 1, Len(h)) ELSE h

\* After the last page: finalisation, stats, history, return, finally.
SyncFinish ==
    /\ \E c \in Callers :
        /\ syncCall[c].pc = "processing"
        /\ syncCall[c].pages = <<>>
        /\ LET r == [syncCall[c].result EXCEPT !.status = FinalStatus(syncCall[c].result)]
           IN /\ bridge_stats' =
                    [total_syncs |-> bridge_stats.total_syncs + 1,
                     pages_synced |-> bridge_stats.pages_synced + r.pages_processed,
                     memories_created |-> bridge_stats.memories_created + r.memories_created,
                     sync_errors |-> bridge_stats.sync_errors + Len(r.errors)]
              /\ last_sync' = bridge_now
              /\ sync_history' = Remember(sync_history, r)
              /\ last_return' = [caller |-> c, kind |-> "returned", result |-> r,
                                  notion_failed |-> syncCall[c].notion_failed]
              /\ syncCall' = [syncCall EXCEPT ![c] = IdleCall]
              /\ sync_in_progress' = FALSE
              /\ bridge_now' = bridge_now + 1
    /\ UNCHANGED <<pages_cache, bridge_cfg, sync_calls>>
    /\ UNCHANGED notBridge

\* The task running the sync is cancelled at one of its awaits: CancelledError
\* passes the except clause and the finally clause runs.
SyncCancelled ==
    /\ \E c \in Callers :
        /\ syncCall[c].pc \in {"discovering", "processing"}
        /\ syncCall' = [syncCall EXCEPT ![c] = IdleCall]
        /\ last_return' = [caller |-> c, kind |-> "raised",
                            result |-> syncCall[c].result,
                            notion_failed |-> syncCall[c].notion_failed]
        /\ sync_in_progress' = FALSE
    /\ UNCHANGED <<last_sync, pages_cache, sync_history, bridge_stats, bridge_cfg,
                   sync_calls, bridge_now>>
    /\ UNCHANGED notBridge

BridgeNext ==
    \/ SyncNotionToZep
    \/ PeriodicSync
    \/ PeriodicSkip
    \/ DiscoverPages
    \/ ProcessPage
    \/ SyncFinish
    \/ SyncCancelled

BridgeSpec == BridgeInit /\ [][BridgeNext]_vars

(***************************************************************************)
(* ClaudeCodeExtension                                                     *)
(***************************************************************************)
MaxCommands == 3
MaxHistory == 2

\* _register_core_commands: every name and alias with its handler.
CoreCommands ==
    { [name |-> <<"m", "e", "m", "o", "r", "y">>, handler |-> "memory_search"],
      [name |-> <<"m", "e", "m", "o", "r", "y", "-", "a", "d", "d">>, handler |-> "memory_add"],
      [name |-> <<"m", "e", "m", "-", "a", "d", "d">>, handler |-> "memory_add"],
      [name |-> <<"r", "e", "m", "e", "m", "b", "e", "r">>, handler |-> "memory_add"],
      [name |-> <<"m", "e", "m", "o", "r", "y", "-", "s", "t", "a", "t", "s">>, handler |-> "memory_stats"],
      [name |-> <<"m", "e", "m", "-", "s", "t", "a", "t", "s">>, handler |-> "memory_stats"],
      [name |-> <<"n", "o", "t", "i", "o", "n">>, handler |-> "notion"],
      [name |-> <<"n", "o", "t", "i", "o", "n", "-", "s", "y", "n", "c">>, handler |-> "notion_sync"],
      [name |-> <<"n", "s", "y", "n", "c">>, handler |-> "notion_sync"],
      [name |-> <<"a", "g", "e", "n", "t", "s">>, handler |-> "agents"],
      [name |-> <<"a", "g", "e", "n", "t", "-", "s", "t", "a", "t", "u", "s">>, handler |-> "agent_status"],
      [name |-> <<"s", "t", "a", "t", "u", "s">>, handler |-> "agent_status"],
      [name |-> <<"h", "e", "a", "l", "t", "h">>, handler |-> "agent_status"],
      [name |-> <<"c", "o", "n", "t", "e", "x", "t">>, handler |-> "context"],
      [name |-> <<"p", "k", "g">>, handler |-> "pkg"],
      [name |-> <<"e", "v", "o", "l", "v", "e">>, handler |-> "evolve"] }

\* A command a client registers whose handler raises Exception("Test exception").
FailingCommand == [name |-> <<"f", "a", "i", "l">>, handler |-> "failing"]

\* The command lines given to execute_command in this model.
CommandLines ==
    { <<>>,
      <<"m", "e", "m", "o", "r", "y">>,
      <<"/", "x", "y", "z">>,
      <<"/", "m", "e", "m", "o", "r", "y", "-", "s", "t", "a", "t", "s">>,
      <<" ", "/", "m", "e", "m", "o", "r", "y", "-", "s", "t", "a", "t", "s">>,
      <<"/", "r", "e", "m", "e", "m", "b", "e", "r", " ", "h", "i">>,
      <<"/", "n", "s", "y", "n", "c">>,
      <<"/", "f", "a", "i", "l">>,
      <<"/", "p", "k", "g">> }

\* str.split(): the maximal runs of non-blank characters.
RECURSIVE SplitWords(_, _)
SplitWords(rest, word) ==
    IF rest = <<>> THEN (IF word = <<>> THEN <<>> ELSE <<word>>)
    ELSE IF Head(rest) = " "
         THEN (IF word = <<>> THEN <<>> ELSE <<word>>) \o SplitWords(Tail(rest), <<>>)
         ELSE SplitWords(Tail(rest), Append(word, Head(rest)))

\* A mutant of Parts: the line is taken as written, as a single word.
PartsUnsplit(command_line) == IF command_line = <<>> THEN <<>> ELSE <<command_line>>

\* parts = command_line.strip().split()
Parts(command_line) == SplitWords(Strip(command_line), <<>>)

\* not parts or not parts[0].startswith('/')
InvalidFormat(parts) == parts = <<>> \/ Head(parts[1]) # "/"

\* self.commands[key] = command
Register(cmds, c) == { d \in cmds : d.name # c.name } \cup {c}
Registered(cmds, name) == \E d \in cmds : d.name = name
HandlerOf(cmds, name) == (CHOOSE d \in cmds : d.name = name).handler

Reply(status, message, detail) ==
    [status |-> status, message |-> message, detail |-> detail, handler_raised |-> FALSE]

\* What a handler can do, as status and message of the dict it returns, or by
\* raising (handler_raised).  "handler" stands for the handler's other messages.
HandlerReplies(handler, cfg) ==
    CASE handler \in {"memory_search", "memory_add", "memory_stats"} ->
           IF ~cfg.memory_engine
           THEN {Reply("error", "Memory engine not available", "")}
           ELSE {Reply("success", "handler", ""), Reply("error", "handler", "")}
      [] handler \in {"notion_sync", "notion"} ->
           IF ~cfg.notion_bridge
           THEN {Reply("error", "Notion bridge not available", "")}
                \cup (IF handler = "notion"
                      THEN {Reply("error", "Unknown notion subcommand", "")} ELSE {})
           ELSE {Reply("success", "handler", ""), Reply("error", "handler", "")}
      [] handler \in {"agents", "agent_status"} ->
           {Reply("success", "handler", ""), Reply("error", "handler", "")}
      [] handler = "context" ->
           {Reply("success", "handler", ""), Reply("error", "handler", ""),
            Reply("info", "handler", "")}
      [] handler \in {"pkg", "evolve"} -> {Reply("info", "handler", "")}
      [] OTHER ->
           {[status |-> "none", message |-> "none", detail |-> "Test exception",
             handler_raised |-> TRUE]}

\* self.command_history[-n:]: Python's slice, where -0 is 0.
LastEntries(history, n) ==
    LET from == IF n = 0 THEN 0
                ELSE IF Len(history) > n THEN Len(history) - n ELSE 0
    IN SubSeq(history, from + 1, Len(history))

\* The history after a command has been executed.
Recorded(history, entry, cfg) ==
    IF cfg.enable_history
    THEN LET h == Append(history, entry)
         IN IF Len(h) > cfg.max_history THEN LastEntries(h, cfg.max_history) ELSE h
    ELSE history

\* The extension after construction, for every set of dependencies and every
\* history configuration.
ExtInit ==
    /\ ext_cfg \in [agent : BOOLEAN, memory_engine : BOOLEAN, notion_bridge : BOOLEAN,
                    enable_history : BOOLEAN, max_history : 0..MaxHistory]
    /\ commands = CoreCommands /\ command_history = <<>>
    /\ ext_calls = 0 /\ ext_last = NoExtCall
    /\ sync_in_progress = FALSE /\ last_sync = 0 /\ pages_cache = {}
    /\ sync_history = <<>> /\ bridge_stats = NoBridgeStats
    /\ bridge_cfg = DefaultBridgeCfg /\ syncCall = [c \in Callers |-> IdleCall]
    /\ sync_calls = 0 /\ last_return = NoReturn /\ bridge_now = 1
    /\ state = "initializing"
    /\ active_protocols = [p \in Protocols |-> FALSE]
    /\ a2a_manager = "none" /\ mcp_manager = "none"
    /\ graphiti_engine = "none" /\ memory_engine = "none"
    /\ message_queue = <<>> /\ response_cache = <<>>
    /\ stats = [messages_processed |-> 0, errors |-> 0]
    /\ env = [graphiti_fails |-> FALSE, memory_fails |-> FALSE]
    /\ initPc = "idle" /\ consumerPc = "none" /\ consumerMsg = NoMessage
    /\ callerPc = "idle" /\ callerMsg = NoMessage /\ shutdownPc = "idle"
    /\ syncs_in_flight = 0 /\ nextMsgId = 1 /\ calls_completed = 0
    /\ lastResponse = NoResponse
    /\ entities = <<>> /\ edges = <<>> /\ episodes = <<>> /\ clock = 0
    /\ ingest_calls = 0 /\ last_episode = NoEpisode
    /\ zep_client = FALSE /\ has_graphiti = FALSE /\ enable_clustering = TRUE
    /\ memory_cache = <<>> /\ cluster_cache = <<>>
    /\ mem_stats = NoMemStats /\ zep_working = <<>> /\ zep_primary = <<>>
    /\ now_hours = 0 /\ consolidate_result = "none" /\ last_search = NoSearch
    /\ content = <<>> /\ intent = "none"
    /\ a2a_session = FALSE /\ agent_registry = {} /\ active_tasks = <<>>
    /\ a2a_now = 0 /\ a2a_calls = 0 /\ a2a_last = NoSend
    /\ rel_memory = DefaultRelMemory /\ rel_last = NoRelevanceCall
    /\ rel_prev = NoRelevanceCall /\ rel_calls = 0

\* register_command(command) for the failing command.
RegisterCommand ==
    /\ commands' = Register(commands, FailingCommand)
    /\ UNCHANGED <<ext_cfg, command_history, ext_calls, ext_last>>
    /\ UNCHANGED notExt

\* The value execute_command(command_line) returns and whether the command is
\* recorded: r.recorded says that the handler returned.
Execute(command_line, cmds, cfg) ==
    LET parts == Parts(command_line)
        cmd_name == Tail(parts[1])
    IN IF InvalidFormat(parts)
       THEN {Reply("error", "Invalid command format", "") @@ [recorded |-> FALSE]}
       ELSE IF ~Registered(cmds, cmd_name)
       THEN {Reply("error", "Unknown command", "") @@ [recorded |-> FALSE]}
       ELSE IF ~cfg.agent
       THEN {Reply("error", "requires an active agent", "") @@ [recorded |-> FALSE]}
       ELSE { IF h.handler_raised
              THEN [status |-> "error", message |-> "Command execution failed",
                    detail |-> h.detail, handler_raised |-> TRUE, recorded |-> FALSE]
              ELSE h @@ [recorded |-> TRUE]
              : h \in HandlerReplies(HandlerOf(cmds, cmd_name), cfg) }

\* await extension.execute_command(command_line)
ExecuteCommand ==
    /\ ext_calls < MaxCommands
    /\ \E command_line \in CommandLines :
        \E r \in Execute(command_line, commands, ext_cfg) :
            /\ ext_last' = [command_line |-> command_line, status |-> r.status,
                            message |-> r.message, detail |-> r.detail,
                            raised |-> FALSE, handler_raised |-> r.handler_raised]
            /\ command_history' =
                 IF r.recorded
                 THEN Recorded(command_history,
                               [command |-> command_line, status |-> r.status], ext_cfg)
                 ELSE command_history
    /\ ext_calls' = ext_calls + 1
    /\ UNCHANGED <<ext_cfg, commands>>
    /\ UNCHANGED notExt

ExtNext ==
    \/ RegisterCommand
    \/ ExecuteCommand

ExtSpec == ExtInit /\ [][ExtNext]_vars

(***************************************************************************)
(* ZepPersonalMemoryEngine.search_memories                                 *)
(***************************************************************************)
MaxSearches == 2
MaxLimit == 2

\* The arguments search_memories is called with: the query text, the
\* memory_types list (None and [] are both falsy: no filter) and the limit.
Queries == { <<"p", "Y">>, <<"k">> }
TypeFilters == { <<>>, <<"semantic">> }
Limits == 0..MaxLimit
\* The importances add_memory is called with in the search runs: one that is
\* stored in the primary session and one that is stored in the working one.
SearchImportances == {"high", "low"}
\* What Graphiti extracts from the texts of the search runs.
SearchEntitySets == { {}, {"k1"} }

\* The entity names as text.
KeywordText(k) == IF k = "k1" THEN <<"k", "1">> ELSE <<"k", "2">>

\* calculate_relevance: the importance_boost table, in tenths.
ImportanceBoost(importance) ==
    CASE importance = "critical" -> 10
      [] importance = "high" -> 9
      [] importance = "medium" -> 7
      [] importance = "low" -> 5
      [] importance = "transient" -> 1
      [] OTHER -> 5

RECURSIVE Pow(_, _)
Pow(b, n) == IF n = 0 THEN 1 ELSE b * Pow(b, n - 1)
Least(a, b) == IF a <= b THEN a ELSE b

\* PersonalMemory.calculate_relevance(days_old), as the numerator of a fraction
\* whose denominator is 10 * 20^days_old (0.95 = 19/20).
CalculateRelevance(m, days_old) ==
    Least(Pow(19, days_old) * ImportanceBoost(m.importance)
            + Least(m.accessed_count, 5) * Pow(20, days_old),
          10 * Pow(20, days_old))

\* list.sort(key=lambda m: m.calculate_relevance(0), reverse=True): a stable
\* sort, so records of equal relevance keep their order.
RECURSIVE InsertByRelevance(_, _)
InsertByRelevance(sorted, m) ==
    IF sorted = <<>> THEN <<m>>
    ELSE IF CalculateRelevance(Head(sorted), 0) >= CalculateRelevance(m, 0)
         THEN <<Head(sorted)>> \o InsertByRelevance(Tail(sorted), m)
         ELSE <<m>> \o sorted
RECURSIVE SortByRelevance(_)
SortByRelevance(list) ==
    IF list = <<>> THEN <<>>
    ELSE InsertByRelevance(SortByRelevance(SubSeq(list, 1, Len(list) - 1)),
                           list[Len(list)])

\* list[:n] of Python, for any integer n.
Slice(list, n) ==
    IF n >= 0 THEN SubSeq(list, 1, Least(n, Len(list)))
    ELSE SubSeq(list, 1, IF Len(list) + n > 0 THEN Len(list) + n ELSE 0)

\* "memory_types and memory.context.memory_type not in memory_types"
TypeFiltered(memory_types, memory_type) ==
    memory_types # <<>> /\ \A i \in DOMAIN memory_types : memory_types[i] # memory_type

\* _search_cache: the test on one cached memory.
CacheMatch(m, query, memory_types) ==
    /\ ~TypeFiltered(memory_types, m.memory_type)
    /\ \/ Contains(Lower(m.content), Lower(query))
       \/ \E e \in m.entities : Contains(Lower(KeywordText(e)), Lower(query))

\* self.memory_cache.values(): the ids in insertion order.  add_memory hands
\* out increasing ids, and a search only overwrites entries that exist.
RECURSIVE Ascending(_)
Ascending(ids) ==
    IF ids = {} THEN <<>>
    ELSE LET least == CHOOSE i \in ids : \A j \in ids : i <= j
         IN <<least>> \o Ascending(ids \ {least})
CacheValues(cache) ==
    LET order == Ascending(DOMAIN cache)
    IN [i \in DOMAIN order |-> [memory_id |-> order[i]] @@ cache[order[i]]]

RECURSIVE SelectMatches(_, _, _)
SelectMatches(list, query, memory_types) ==
    IF list = <<>> THEN <<>>
    ELSE (IF CacheMatch(Head(list), query, memory_types) THEN <<Head(list)>> ELSE <<>>)
         \o SelectMatches(Tail(list), query, memory_types)

\* A mutant of SearchCache: the limit is not applied.
SearchCacheUnlimited(cache, query, memory_types, limit) ==
    SortByRelevance(SelectMatches(CacheValues(cache), query, memory_types))

\* _search_cache(query, memory_types, limit)
SearchCache(cache, query, memory_types, limit) ==
    Slice(SortByRelevance(SelectMatches(CacheValues(cache), query, memory_types)), limit)

\* _zep_to_personal_memory followed by update_access(): what the metadata
\* holds, and the defaults for what it does not hold.
ZepToPersonalMemory(rec, now) ==
    [memory_id |-> rec.memory_id,
     importance |-> IF rec.importance = "absent" THEN "medium" ELSE rec.importance,
     session |-> "primary",
     ttl_hours |-> NoTTL,
     created_at |-> IF rec.created_at = NoCreatedAt THEN now ELSE rec.created_at,
     entities |-> rec.entities,
     memory_type |-> IF rec.memory_type = "absent" THEN DefaultMemoryType
                     ELSE rec.memory_type,
     content |-> rec.content,
     accessed_count |-> 1]

\* The loop over one session's search result: found is the set of positions
\* of the session the service returned with a score of min_confidence or more.
RECURSIVE ConvertResults(_, _, _, _, _)
ConvertResults(session, found, i, memory_types, now) ==
    IF i > Len(session) THEN <<>>
    ELSE LET m == ZepToPersonalMemory(session[i], now)
         IN (IF i \in found /\ ~TypeFiltered(memory_types, m.memory_type)
             THEN <<m>> ELSE <<>>)
            \o ConvertResults(session, found, i + 1, memory_types, now)

\* "for memory in results[:limit]: self.memory_cache[memory.memory_id] = memory"
RECURSIVE CacheResults(_, _)
CacheResults(cache, list) ==
    IF list = <<>> THEN cache
    ELSE LET m == Head(list)
             entry == [f \in DOMAIN m \ {"memory_id"} |-> m[f]]
         IN CacheResults((m.memory_id :> entry) @@ cache, Tail(list))

Ids(list) == [i \in DOMAIN list |-> list[i].memory_id]

\* search_memories(query, memory_types, limit).  zepRaises: a search_memory
\* call of the Zep client raises, which the except clause turns into [].
SearchMemories ==
    /\ mem_stats.searches_performed < MaxSearches
    /\ \E query \in Queries, memory_types \in TypeFilters, limit \in Limits :
        LET cached_results == SearchCache(memory_cache, query, memory_types, limit)
            matches == { k \in DOMAIN memory_cache :
                           CacheMatch(memory_cache[k], query, memory_types) }
            call == [query |-> query, memory_types |-> memory_types, limit |-> limit,
                     returned |-> <<>>, cache_matches |-> matches,
                     zep_queried |-> FALSE, raised |-> FALSE]
        IN IF cached_results # <<>>
           THEN /\ mem_stats' = [mem_stats EXCEPT !.searches_performed = @ + 1,
                                                  !.cache_hits = @ + 1]
                /\ last_search' = [call EXCEPT !.returned = Ids(cached_results)]
                /\ UNCHANGED memory_cache
           ELSE IF ~zep_client
           THEN /\ mem_stats' = [mem_stats EXCEPT !.searches_performed = @ + 1,
                                                  !.cache_misses = @ + 1]
                /\ last_search' = call
                /\ UNCHANGED memory_cache
           ELSE \E zepRaises \in BOOLEAN,
                   foundPrimary \in SUBSET DOMAIN zep_primary,
                   foundWorking \in SUBSET DOMAIN zep_working :
                  IF zepRaises
                  THEN /\ foundPrimary = {} /\ foundWorking = {}
                       /\ mem_stats' = [mem_stats EXCEPT !.searches_performed = @ + 1,
                                                         !.cache_misses = @ + 1]
                       /\ last_search' = [call EXCEPT !.zep_queried = TRUE,
                                                      !.raised = TRUE]
                       /\ UNCHANGED memory_cache
                  ELSE LET results == SortByRelevance(
                                 ConvertResults(zep_primary, foundPrimary, 1,
                                                memory_types, now_hours)
                                 \o ConvertResults(zep_working, foundWorking, 1,
                                                   memory_types, now_hours))
                       IN /\ memory_cache' = CacheResults(memory_cache,
                                                          Slice(results, limit))
                          /\ mem_stats' = [mem_stats EXCEPT
                                              !.searches_performed = @ + 1,
                                              !.cache_misses = @ + 1,
                                              !.memories_retrieved = @ + Len(results)]
                          /\ last_search' = [call EXCEPT
                                                !.returned = Ids(Slice(results, limit)),
                                                !.zep_queried = TRUE]
    /\ UNCHANGED <<zep_client, has_graphiti, enable_clustering, cluster_cache,
                   zep_working, zep_primary, now_hours, consolidate_result>>
    /\ UNCHANGED notMemory

\* add_memory in the runs where the memories are searched.
AddMemorySearched ==
    AddMemoryUpTo(MaxCached, SearchImportances, {DefaultContent}, MemoryTypes,
                  SearchEntitySets)

\* The engine with clustering switched off (config enable_clustering = False),
\* adding memories and searching them.
SearchInit ==
    /\ MemoryInit
    /\ ~enable_clustering

SearchNext ==
    \/ AddMemorySearched
    \/ SearchMemories

SearchSpec == SearchInit /\ [][SearchNext]_vars

(***************************************************************************)
(* PersonalMemory.calculate_relevance and update_access                    *)
(***************************************************************************)
MaxDays == 5
MaxAccessed == 6
MaxRelevanceCalls == 3
\* The age test_relevance_calculation asks for.
TestAge == 30
\* The ages calculate_relevance is called with.
Ages == (0..MaxDays) \cup {TestAge}

\* Enclosures are kept in millionths.
Million == 1000000

\* 0.95 ** days_old, enclosed: DecayLower <= 0.95^days_old * 10^6 <= DecayUpper.
RECURSIVE DecayLower(_)
DecayLower(days_old) ==
    IF days_old = 0 THEN Million ELSE (DecayLower(days_old - 1) * 95) \div 100
RECURSIVE DecayUpper(_)
DecayUpper(days_old) ==
    IF days_old = 0 THEN Million ELSE (DecayUpper(days_old - 1) * 95 + 99) \div 100

\* calculate_relevance(days_old), enclosed in millionths.
RelevanceLower(m, days_old) ==
    Least((DecayLower(days_old) * ImportanceBoost(m.importance)) \div 10
            + Least(m.accessed_count, 5) * (Million \div 10),
          Million)
RelevanceUpper(m, days_old) ==
    Least((DecayUpper(days_old) * ImportanceBoost(m.importance) + 9) \div 10
            + Least(m.accessed_count, 5) * (Million \div 10),
          Million)

\* A mutant of RelevanceCall: the sum is not clamped to 1.0.
RelevanceCallUnclamped(m, days_old) ==
    [days_old |-> days_old, accessed_count |-> m.accessed_count,
     exact |-> days_old <= MaxDays,
     value |-> IF days_old <= MaxDays
               THEN Pow(19, days_old) * ImportanceBoost(m.importance)
                      + Least(m.accessed_count, 5) * Pow(20, days_old)
               ELSE 0,
     lower |-> RelevanceLower(m, days_old),
     upper |-> RelevanceUpper(m, days_old)]

\* What one calculate_relevance(days_old) call returns: the value as a
\* fraction of 10 * 20^days_old where that fits the integers (exact), and its
\* enclosure in millionths at every age.
RelevanceCall(m, days_old) ==
    [days_old |-> days_old, accessed_count |-> m.accessed_count,
     exact |-> days_old <= MaxDays,
     value |-> IF days_old <= MaxDays THEN CalculateRelevance(m, days_old) ELSE 0,
     lower |-> RelevanceLower(m, days_old),
     upper |-> RelevanceUpper(m, days_old)]

RelInit ==
    /\ content = <<>> /\ intent = "none"
    /\ a2a_session = FALSE /\ agent_registry = {} /\ active_tasks = <<>>
    /\ a2a_now = 0 /\ a2a_calls = 0 /\ a2a_last = NoSend
    /\ rel_memory \in [importance : Importances, accessed_count : {0}]
    /\ rel_last = NoRelevanceCall /\ rel_prev = NoRelevanceCall /\ rel_calls = 0
    /\ ext_cfg = DefaultExtCfg /\ commands = {} /\ command_history = <<>>
    /\ ext_calls = 0 /\ ext_last = NoExtCall
    /\ sync_in_progress = FALSE /\ last_sync = 0 /\ pages_cache = {}
    /\ sync_history = <<>> /\ bridge_stats = NoBridgeStats
    /\ bridge_cfg = DefaultBridgeCfg /\ syncCall = [c \in Callers |-> IdleCall]
    /\ sync_calls = 0 /\ last_return = NoReturn /\ bridge_now = 1
    /\ zep_client = FALSE /\ has_graphiti = FALSE /\ enable_clustering = TRUE
    /\ memory_cache = <<>> /\ cluster_cache = <<>>
    /\ mem_stats = NoMemStats /\ zep_working = <<>> /\ zep_primary = <<>>
    /\ now_hours = 0 /\ consolidate_result = "none" /\ last_search = NoSearch
    /\ entities = <<>> /\ edges = <<>> /\ episodes = <<>> /\ clock = 0
    /\ ingest_calls = 0 /\ last_episode = NoEpisode
    /\ state = "initializing"
    /\ active_protocols = [p \in Protocols |-> FALSE]
    /\ a2a_manager = "none" /\ mcp_manager = "none"
    /\ graphiti_engine = "none" /\ memory_engine = "none"
    /\ message_queue = <<>> /\ response_cache = <<>>
    /\ stats = [messages_processed |-> 0, errors |-> 0]
    /\ env = [graphiti_fails |-> FALSE, memory_fails |-> FALSE]
    /\ initPc = "idle" /\ consumerPc = "none" /\ consumerMsg = NoMessage
    /\ callerPc = "idle" /\ callerMsg = NoMessage /\ shutdownPc = "idle"
    /\ syncs_in_flight = 0 /\ nextMsgId = 1 /\ calls_completed = 0
    /\ lastResponse = NoResponse

\* memory.update_access()
UpdateAccess ==
    /\ rel_memory.accessed_count < MaxAccessed
    /\ rel_memory' = [rel_memory EXCEPT !.accessed_count = @ + 1]
    /\ UNCHANGED <<rel_last, rel_prev, rel_calls>>
    /\ UNCHANGED notRel

\* memory.calculate_relevance(days_old): it reads the record and returns.
CalculateRelevanceCall ==
    /\ rel_calls < MaxRelevanceCalls
    /\ \E days_old \in Ages :
        /\ rel_last' = RelevanceCall(rel_memory, days_old)
        /\ rel_prev' = rel_last
    /\ rel_calls' = rel_calls + 1
    /\ UNCHANGED rel_memory
    /\ UNCHANGED notRel

RelNext ==
    \/ UpdateAccess
    \/ CalculateRelevanceCall

RelSpec == RelInit /\ [][RelNext]_vars

(***************************************************************************)
(* A2AManager                                                              *)
(***************************************************************************)
MaxA2ACalls == 3
MaxA2AClock == 1
MaxGivenIds == 1

\* The manager's own agent_id, the keys of self.remote_agents, and a name
\* that has no Agent Card.
AgentId == "personal"
RemoteAgents == {"claude_code_a2a", "notion_a2a", "zep_cloud_a2a"}
Targets == RemoteAgents \cup {AgentId, "stranger"}

\* task_id: the caller's, or task_<second>_<target_agent>.
GivenIds == { <<"given", n, "caller">> : n \in 1..MaxGivenIds }
GeneratedId(t, target) == <<"task", t, target>>

\* A2ATask(task_id, status="pending", ...)
A2ATask(target) == [status |-> "pending", target_agent |-> target]

\* self.active_tasks[task_id] = task
TaskPut(tasks, id, task) ==
    [k \in DOMAIN tasks \cup {id} |-> IF k = id THEN task ELSE tasks[k]]

\* What the POST to the remote agent does: an HTTP 200 reply whose body
\* parses, any other reply, an exception raised by session.post, or a 200
\* reply whose response.json() raises.
Replies == {"200", "other", "post_raises", "json_raises"}

\* The manager as constructed.
A2AInit ==
    /\ content = <<>> /\ intent = "none"
    /\ a2a_session = FALSE /\ agent_registry = {} /\ active_tasks = <<>>
    /\ a2a_now = 0 /\ a2a_calls = 0 /\ a2a_last = NoSend
    /\ rel_memory = DefaultRelMemory
    /\ rel_last = NoRelevanceCall /\ rel_prev = NoRelevanceCall /\ rel_calls = 0
    /\ ext_cfg = DefaultExtCfg /\ commands = {} /\ command_history = <<>>
    /\ ext_calls = 0 /\ ext_last = NoExtCall
    /\ sync_in_progress = FALSE /\ last_sync = 0 /\ pages_cache = {}
    /\ sync_history = <<>> /\ bridge_stats = NoBridgeStats
    /\ bridge_cfg = DefaultBridgeCfg /\ syncCall = [c \in Callers |-> IdleCall]
    /\ sync_calls = 0 /\ last_return = NoReturn /\ bridge_now = 1
    /\ zep_client = FALSE /\ has_graphiti = FALSE /\ enable_clustering = TRUE
    /\ memory_cache = <<>> /\ cluster_cache = <<>>
    /\ mem_stats = NoMemStats /\ zep_working = <<>> /\ zep_primary = <<>>
    /\ now_hours = 0 /\ consolidate_result = "none" /\ last_search = NoSearch
    /\ entities = <<>> /\ edges = <<>> /\ episodes = <<>> /\ clock = 0
    /\ ingest_calls = 0 /\ last_episode = NoEpisode
    /\ state = "initializing"
    /\ active_protocols = [p \in Protocols |-> FALSE]
    /\ a2a_manager = "none" /\ mcp_manager = "none"
    /\ graphiti_engine = "none" /\ memory_engine = "none"
    /\ message_queue = <<>> /\ response_cache = <<>>
    /\ stats = [messages_processed |-> 0, errors |-> 0]
    /\ env = [graphiti_fails |-> FALSE, memory_fails |-> FALSE]
    /\ initPc = "idle" /\ consumerPc = "none" /\ consumerMsg = NoMessage
    /\ callerPc = "idle" /\ callerMsg = NoMessage /\ shutdownPc = "idle"
    /\ syncs_in_flight = 0 /\ nextMsgId = 1 /\ calls_completed = 0
    /\ lastResponse = NoResponse

\* initialize(): a new ClientSession, _publish_agent_card stores the own
\* card, and _discover_remote_agents stores the card of every remote agent
\* whose card could be fetched.
Discover(registry, discovered) == registry \cup {AgentId} \cup discovered

A2AInitialize ==
    /\ a2a_session' = TRUE
    /\ \E discovered \in SUBSET RemoteAgents :
          agent_registry' = Discover(agent_registry, discovered)
    /\ UNCHANGED <<active_tasks, a2a_now, a2a_calls, a2a_last>>
    /\ UNCHANGED notA2A

\* cleanup()
A2ACleanup ==
    /\ a2a_session
    /\ a2a_session' = FALSE
    /\ UNCHANGED <<agent_registry, active_tasks, a2a_now, a2a_calls, a2a_last>>
    /\ UNCHANGED notA2A

\* A second passes.
A2ATick ==
    /\ a2a_now < MaxA2AClock
    /\ a2a_now' = a2a_now + 1
    /\ UNCHANGED <<a2a_session, agent_registry, active_tasks, a2a_calls, a2a_last>>
    /\ UNCHANGED notA2A

\* The outcome of the send for a task that has been stored: the status of the
\* task object and whether the call returns it (or None, from the except
\* clause).
SendOutcome(target, reply) ==
    IF target \notin RemoteAgents THEN [status |-> "pending", returned |-> TRUE]
    ELSE IF reply = "200" THEN [status |-> "in_progress", returned |-> TRUE]
    ELSE IF reply = "other" THEN [status |-> "failed", returned |-> TRUE]
    ELSE [status |-> "pending", returned |-> FALSE]

\* send_task_to_agent(target_agent, task_data, task_id), from the call to the
\* return.  given = NoTaskId: the caller passes no task_id.
SendTaskToAgent ==
    /\ a2a_calls < MaxA2ACalls
    /\ a2a_calls' = a2a_calls + 1
    /\ \E target \in Targets, given \in GivenIds \cup {NoTaskId}, reply \in Replies,
          discovered \in SUBSET RemoteAgents :
        IF target \notin agent_registry
        THEN /\ a2a_last' = [target_agent |-> target, task_id |-> given,
                             reply |-> "none", returned |-> FALSE, status |-> "none"]
             /\ UNCHANGED <<a2a_session, agent_registry, active_tasks>>
        ELSE LET task_id == IF given = NoTaskId THEN GeneratedId(a2a_now, target)
                                                 ELSE given
                 remote == target \in RemoteAgents
                 outcome == SendOutcome(target, reply)
             IN /\ active_tasks' = TaskPut(active_tasks, task_id,
                                       [A2ATask(target) EXCEPT !.status = outcome.status])
                /\ IF remote /\ ~a2a_session
                   THEN /\ a2a_session' = TRUE
                        /\ agent_registry' = Discover(agent_registry, discovered)
                   ELSE /\ discovered = {}
                        /\ UNCHANGED <<a2a_session, agent_registry>>
                /\ a2a_last' = [target_agent |-> target, task_id |-> task_id,
                                reply |-> IF remote THEN reply ELSE "none",
                                returned |-> outcome.returned,
                                status |-> outcome.status]
    /\ UNCHANGED a2a_now
    /\ UNCHANGED notA2A

A2ANext ==
    \/ A2AInitialize
    \/ A2ACleanup
    \/ A2ATick
    \/ SendTaskToAgent

A2ASpec == A2AInit /\ [][A2ANext]_vars

(***************************************************************************)
(* Claims about the agent loop, checked under AgentSpec.                   *)
(***************************************************************************)

\* C1: after shutdown() has completed, the agent state is SHUTDOWN.
C1_ShutdownEndsInShutdown == shutdownPc = "done" => state = "shutdown"

\* C2: messages are dropped on shutdown.  In its weakest reading: once
\* shutdown() has returned, the consumer takes no further message from
\* message_queue to process it.
C2_NoProcessingAfterShutdown ==
    [][shutdownPc = "done" => ~(consumerPc = "getting" /\ consumerPc' = "processing")]_vars

\* C3: every message queued on an initialized agent that was not shut down is
\* eventually processed, whatever was handled before it.  The consumer task,
\* once stopped, never runs again, so the claim requires that it has not
\* stopped while such a message waits.
C3_QueuedMessageIsServed ==
    (initPc = "done" /\ shutdownPc = "idle" /\ message_queue # <<>>)
        => consumerPc # "stopped"

\* The message of the process_message call that returns in this step.
ReturningMessage ==
    IF consumerPc = "processing" /\ consumerPc' # "processing"
    THEN consumerMsg ELSE callerMsg

\* C4: every process_message call returns an AgentResponse and increments
\* exactly one counter by one: messages_processed on success, and the response
\* carries the message's id; errors on failure, and the response has
\* confidence 0.0 and actions_taken = ['error_handling'].  No other step
\* touches the counters, so messages_processed + errors = completed calls.
C4_ExactlyOneCounterPerCall ==
    [][/\ calls_completed' = calls_completed => stats' = stats
       /\ calls_completed' # calls_completed =>
            /\ calls_completed' = calls_completed + 1
            /\ stats'.messages_processed + stats'.errors = calls_completed'
            /\ \/ /\ stats'.messages_processed = stats.messages_processed + 1
                  /\ stats'.errors = stats.errors
                  /\ lastResponse'.message_id = ReturningMessage.id
                  /\ lastResponse'.confidence # "0.0"
               \/ /\ stats'.errors = stats.errors + 1
                  /\ stats'.messages_processed = stats.messages_processed
                  /\ lastResponse'.confidence = "0.0"
                  /\ lastResponse'.actions_taken = <<"error_handling">>]_vars

\* C4 witness: one call has succeeded and one has failed.
C4_Witness ==
    /\ calls_completed = 2
    /\ stats.messages_processed = 1
    /\ stats.errors = 1

\* Whether the initialization of protocol p is attempted and raises, in the
\* state before initialize().
ProtocolInitFails(p) ==
    /\ active_protocols[p]
    /\ p = "graphiti" => env.graphiti_fails

\* C5: initialize() ends in READY whenever the memory engine initializes, even
\* if A2A, MCP or Graphiti initialization fails, and a failing protocol is then
\* inactive in active_protocols; if the memory engine fails, the state is ERROR
\* and the exception propagates.
C5_InitializeOutcome ==
    [][(initPc = "idle" /\ initPc' # "idle") =>
          IF env.memory_fails
          THEN state' = "error" /\ initPc' = "raised"
          ELSE /\ state' = "ready"
               /\ initPc' = "done"
               /\ \A p \in Protocols :
                      ProtocolInitFails(p) => ~active_protocols'[p]]_vars

\* C5 witness: initialize() has returned with the agent READY although the A2A
\* and Graphiti initializations failed.
C5_Witness ==
    /\ initPc = "done"
    /\ state = "ready"
    /\ a2a_manager = "set" /\ ~active_protocols["a2a"]
    /\ env.graphiti_fails /\ graphiti_engine = "none" /\ ~active_protocols["graphiti"]

(***************************************************************************)
(* Claims about the knowledge graph, checked under GraphSpec.              *)
(***************************************************************************)
Range(f) == { f[i] : i \in DOMAIN f }

\* What the claim identifies an entity by: its type and lower-cased name.
EntityKey(type, name) == <<type, Lower(name)>>
RecordsOf(ents, key) ==
    { id \in DOMAIN ents : EntityKey(ents[id].entity_type, ents[id].name) = key }
OneRecordPerName(ents) ==
    \A a, b \in DOMAIN ents :
        EntityKey(ents[a].entity_type, ents[a].name)
            = EntityKey(ents[b].entity_type, ents[b].name) => a = b

\* C6: after any sequence of ingest_episode calls, entities holds at most one
\* record per (entity type, lower-cased name); extracting a name that is
\* already present, in any letter case, adds no record and merges into the
\* existing one: last_seen is refreshed and the episode id recorded.
C6_MergeOnReextraction ==
    [][ingest_calls' = ingest_calls + 1 =>
        /\ OneRecordPerName(entities')
        /\ \A i \in DOMAIN last_episode'.content :
             LET m == last_episode'.content[i]
                 key == EntityKey(m.type, Strip(m.text))
             IN \A id \in RecordsOf(entities, key) :
                    /\ RecordsOf(entities', key) = {id}
                    /\ entities'[id].name = entities[id].name
                    /\ entities'[id].last_seen = clock
                    /\ last_episode'.episode_id \in Range(entities'[id].episode_ids)]_vars

\* C6 witness: the name "an", stored by a first episode, was extracted again
\* one second later written " AN", and the graph still holds a single record,
\* which lists both episodes.
C6_Witness ==
    /\ ingest_calls = 2
    /\ clock = 1
    /\ \E id \in DOMAIN entities, i \in DOMAIN last_episode.content :
        /\ last_episode.content[i].text = <<" ", "A", "N">>
        /\ last_episode.content[i].type = entities[id].entity_type
        /\ entities[id].name = <<"a", "n">>
        /\ entities[id].last_seen = 1
        /\ {e[1] : e \in Range(entities[id].episode_ids)} = {0, 1}
        /\ Cardinality(DOMAIN entities) = 1

(***************************************************************************)
(* Claims about the memory engine                                          *)
(***************************************************************************)
\* C7: after consolidate_memories returns, memory_cache holds no record that
\* has a TTL and whose age in hours exceeds that TTL, whatever the engine's
\* configuration (with or without a Zep client).
C7_NoExpiredAfterConsolidation ==
    [][ConsolidateMemories =>
         \A k \in DOMAIN memory_cache' :
            ~(/\ memory_cache'[k].ttl_hours # NoTTL
              /\ now_hours' - memory_cache'[k].created_at > memory_cache'[k].ttl_hours)]_vars

HighOrCritical(m) == m.importance \in {"high", "critical"}

\* C8: consolidate_memories copies into the primary session exactly the fetched
\* working-session records whose importance is high or critical, in order; a
\* record of another importance, or without importance metadata, is never
\* copied, and the working session keeps all its records.
C8_PromotesHighAndCritical ==
    [][ConsolidateMemories =>
         LET due == SelectSeq(Fetch(zep_working), HighOrCritical)
         IN /\ zep_working' = zep_working
            /\ \E n \in 0..Len(due) : zep_primary' = zep_primary \o SubSeq(due, 1, n)
            /\ consolidate_result' = "completed" => zep_primary' = zep_primary \o due]_vars

\* A completed consolidation that copied a critical record and left a record of
\* lower importance in the working session only.
C8_Witness ==
    /\ consolidate_result = "completed"
    /\ \E i \in DOMAIN zep_working :
          /\ zep_working[i].importance = "critical"
          /\ \E j \in DOMAIN zep_primary : zep_primary[j] = zep_working[i]
    /\ \E i \in DOMAIN zep_working :
          /\ zep_working[i].importance \in {"medium", "low", "transient"}
          /\ \A j \in DOMAIN zep_primary : zep_primary[j] # zep_working[i]

ClusterHolds(c, id) == \E n \in DOMAIN c.memory_ids : c.memory_ids[n] = id

\* C9: with clustering enabled, a successful add_memory leaves the new memory id
\* in exactly one cluster: the first cluster, in creation order, whose keywords
\* share an element with the memory's entity names, else a cluster created for
\* it; clusters_formed is the number of clusters and cluster ids are distinct.
C9_OneClusterPerMemory ==
    [][(enable_clustering /\ mem_stats'.memories_created = mem_stats.memories_created + 1) =>
         LET id == mem_stats'.memories_created
             ents == memory_cache'[id].entities
             matching == { i \in DOMAIN cluster_cache :
                             cluster_cache[i].keywords \cap ents # {} }
             holders == { i \in DOMAIN cluster_cache' : ClusterHolds(cluster_cache'[i], id) }
         IN /\ Cardinality(holders) = 1
            /\ IF matching # {}
               THEN /\ \E i \in matching : holders = {i} /\ \A j \in matching : i <= j
                    /\ Len(cluster_cache') = Len(cluster_cache)
               ELSE /\ holders = {Len(cluster_cache) + 1}
                    /\ Len(cluster_cache') = Len(cluster_cache) + 1
            /\ mem_stats'.clusters_formed = Len(cluster_cache')
            /\ \A i, j \in DOMAIN cluster_cache' :
                  cluster_cache'[i].cluster_id = cluster_cache'[j].cluster_id => i = j]_vars

\* The third memory names the keywords of two clusters and joins the older one.
C9_Witness ==
    /\ enable_clustering
    /\ mem_stats.memories_created = 3
    /\ Len(cluster_cache) = 2
    /\ cluster_cache[1].memory_ids = <<1, 3>>
    /\ cluster_cache[2].memory_ids = <<2>>
    /\ cluster_cache[2].keywords \cap memory_cache[3].entities # {}
    /\ mem_stats.clusters_formed = 2

(***************************************************************************)
(* Claims about intent detection                                           *)
(***************************************************************************)
IntentOrder == <<"task_execution", "knowledge_query", "file_operation", "memory_query">>
IntentWords == <<TaskWords, KnowledgeWords, FileWords, MemoryWords>>

C11_MemoryKeywordGivesMemoryQuery ==
    (intent # "none" /\ AnyWordIn(MemoryWords, Lower(content))) => intent = "memory_query"

(***************************************************************************)
(* Claims about the Notion bridge                                          *)
(***************************************************************************)
RunningSyncs == { c \in Callers : syncCall[c].pc # "idle" }

\* C12: under every interleaving of sync_notion_to_zep calls and the periodic
\* task, at most one call is inside the sync body, and sync_in_progress is
\* true exactly while one is: it is false again once that call has returned,
\* completed, failed or raised.
C12_OneSyncAtATime ==
    /\ Cardinality(RunningSyncs) <= 1
    /\ sync_in_progress <=> RunningSyncs # {}

\* A caller was turned away while the periodic task's sync was at its pages,
\* after an earlier sync had been cancelled.
C12_Witness ==
    /\ syncCall["periodic"].pc = "processing"
    /\ last_return.kind = "rejected"
    /\ sync_in_progress
    /\ sync_calls = 3

\* C13: a sync_notion_to_zep call issued while sync_in_progress is true returns
\* FAILED with the error "Sync already in progress" and leaves stats,
\* sync_history, pages_cache, last_sync and the flag as they were.
C13_RejectedCallChangesNothing ==
    [][(sync_in_progress /\ sync_calls' = sync_calls + 1) =>
         /\ last_return'.kind = "rejected"
         /\ last_return'.result.status = "failed"
         /\ last_return'.result.errors = <<"Sync already in progress">>
         /\ UNCHANGED <<bridge_stats, sync_history, pages_cache, last_sync,
                        sync_in_progress>>]_vars

\* A call rejected during the second sync, the first having synced a page.
C13_Witness ==
    /\ last_return.kind = "rejected"
    /\ sync_in_progress
    /\ bridge_stats.total_syncs = 1
    /\ pages_cache # {}

\* C14: when access to Notion fails during a sync (the MCP tool call raises),
\* sync_notion_to_zep returns FAILED with at least one error message.
C14_NotionFailureGivesFailed ==
    (last_return.kind = "returned" /\ last_return.notion_failed) =>
        /\ last_return.result.status = "failed"
        /\ last_return.result.errors # <<>>

(***************************************************************************)
(* Claims about the Claude Code extension                                  *)
(***************************************************************************)
\* C15: with history enabled, command_history never has more than max_history
\* entries, for every configured max_history >= 0.
C15_HistoryWithinLimit ==
    ext_cfg.enable_history => Len(command_history) <= ext_cfg.max_history

\* The position of the first non-blank character of a line, 0 if there is none.
FirstNonBlank(line) ==
    LET at == { i \in DOMAIN line : line[i] # " " }
    IN IF at = {} THEN 0 ELSE CHOOSE i \in at : \A j \in at : i <= j

\* The characters between the '/' at position i and the next blank.
NameAfter(line, i) ==
    LET blanks == { j \in DOMAIN line : j > i /\ line[j] = " " }
        end == IF blanks = {} THEN Len(line) + 1
               ELSE CHOOSE j \in blanks : \A k \in blanks : j <= k
    IN SubSeq(line, i + 1, end - 1)

MemoryCommandNames ==
    { <<"m", "e", "m", "o", "r", "y">>,
      <<"m", "e", "m", "o", "r", "y", "-", "a", "d", "d">>,
      <<"m", "e", "m", "o", "r", "y", "-", "s", "t", "a", "t", "s">> }
NotionSyncName == <<"n", "o", "t", "i", "o", "n", "-", "s", "y", "n", "c">>

\* C16: without a memory engine a memory command (/memory, /memory-add,
\* /memory-stats) is answered with the error "Memory engine not available",
\* and without a Notion bridge /notion-sync is answered with "Notion bridge
\* not available".
C16_MissingDependencyMessage ==
    LET line == ext_last.command_line
        i == FirstNonBlank(line)
    IN (ext_last.status # "none" /\ i # 0 /\ line[i] = "/") =>
          /\ (NameAfter(line, i) \in MemoryCommandNames /\ ~ext_cfg.memory_engine) =>
                (ext_last.status = "error"
                 /\ ext_last.message = "Memory engine not available")
          /\ (NameAfter(line, i) = NotionSyncName /\ ~ext_cfg.notion_bridge) =>
                (ext_last.status = "error"
                 /\ ext_last.message = "Notion bridge not available")

\* What C17 says of every call but the line's format: the call returns a dict
\* with one of the three statuses, and a raising handler is reported.
ExecuteNeverRaises ==
    /\ ~ext_last'.raised
    /\ ext_last'.status \in {"success", "error", "info"}
    /\ ext_last'.handler_raised =>
          /\ ext_last'.status = "error"
          /\ ext_last'.message = "Command execution failed"
          /\ ext_last'.detail = "Test exception"

\* C17, as stated: execute_command never raises and returns a dict whose status
\* is success, error or info; an input that does not start with '/' gives
\* "Invalid command format", an unregistered name "Unknown command", a raising
\* handler "Command execution failed" with the exception's text.
C17_AsStated ==
    [][ext_calls' = ext_calls + 1 =>
         LET line == ext_last'.command_line
         IN /\ ExecuteNeverRaises
            /\ (line = <<>> \/ Head(line) # "/") =>
                  ext_last'.message = "Invalid command format"
            /\ (line # <<>> /\ Head(line) = "/"
                /\ ~Registered(commands, NameAfter(line, 1))) =>
                  ext_last'.message = "Unknown command"]_vars

\* C17, amended: the same, where the test for '/' and the command name are
\* taken on the input without its surrounding blanks: an input that is blank
\* or whose first non-blank character is not '/' gives "Invalid command
\* format", and one whose first word is '/' and an unregistered name gives
\* "Unknown command".
C17_ExecuteCommandReplies ==
    [][ext_calls' = ext_calls + 1 =>
         LET line == ext_last'.command_line
             i == FirstNonBlank(line)
         IN /\ ExecuteNeverRaises
            /\ (i = 0 \/ line[i] # "/") <=>
                  ext_last'.message = "Invalid command format"
            /\ (i # 0 /\ line[i] = "/") =>
                  (~Registered(commands, NameAfter(line, i)) <=>
                      ext_last'.message = "Unknown command")]_vars

\* A command given after a blank was executed and recorded.
C17_Witness ==
    /\ ext_last.command_line = <<" ", "/", "m", "e", "m", "o", "r", "y", "-", "s", "t", "a", "t", "s">>
    /\ ext_last.status = "success"
    /\ \E i \in DOMAIN command_history : command_history[i].status = "success"
    /\ ext_calls = 2

(***************************************************************************)
(* Claims about search_memories, checked under SearchSpec.                 *)
(***************************************************************************)
\* A step that is one search_memories call.
SearchCall == mem_stats'.searches_performed = mem_stats.searches_performed + 1

\* The call counts one search and exactly one of a hit and a miss.
CountsOneOutcome ==
    \/ /\ mem_stats'.cache_hits = mem_stats.cache_hits + 1
       /\ mem_stats'.cache_misses = mem_stats.cache_misses
    \/ /\ mem_stats'.cache_hits = mem_stats.cache_hits
       /\ mem_stats'.cache_misses = mem_stats.cache_misses + 1

\* The cached memories the call's query and type filter match, before the call.
CachedMatches ==
    { k \in DOMAIN memory_cache :
        CacheMatch(memory_cache[k], last_search'.query, last_search'.memory_types) }

\* The call answers from the cache: Zep is not queried, and what is returned
\* are cached matches, as many as the limit lets through.
AnsweredFromCache ==
    /\ ~last_search'.zep_queried
    /\ mem_stats'.cache_hits = mem_stats.cache_hits + 1
    /\ Range(last_search'.returned) \subseteq CachedMatches
    /\ Len(last_search'.returned) = Least(last_search'.limit, Cardinality(CachedMatches))
    /\ Len(last_search'.returned) >= 1

CoOccurrence(e) == e.inferred_from = "co_occurrence"

\* The first index (from 0) at which the lower-cased name occurs in the
\* lower-cased text; the text's length if it does not occur.
RECURSIVE ScanFrom(_, _, _)
ScanFrom(t, w, i) ==
    IF i + Len(w) > Len(t) THEN Len(t)
    ELSE IF \A k \in 1..Len(w) : t[i + k] = w[k] THEN i
    ELSE ScanFrom(t, w, i + 1)
FirstOccurrence(text, name) == ScanFrom(Lower(text), Lower(name), 0)

\* What the claim says the weight of an edge depends on: whether both names
\* occur in the text, how far apart, and the length of the text.
Measure(e) ==
    IF CoOccurrence(e)
    THEN LET pos1 == FirstOccurrence(e.context, e.source_name)
             pos2 == FirstOccurrence(e.context, e.target_name)
         IN [co_occurrence |-> TRUE,
             found |-> pos1 < Len(e.context) /\ pos2 < Len(e.context),
             distance |-> Abs(pos1 - pos2),
             length |-> Len(e.context),
             weight |-> e.weight]
    ELSE [co_occurrence |-> FALSE, found |-> FALSE, distance |-> 0, length |-> 0,
          weight |-> e.weight]
Measures == [i \in DOMAIN edges |-> Measure(edges[i])]

\* weight = max(0.1, 1 - distance / len(text)), exactly.
ExactWeight(m) ==
    IF 10 * (m.length - m.distance) <= m.length
    THEN m.weight = MinWeight
    ELSE m.weight * m.length = WeightScale * (m.length - m.distance)

\* weight = max(0.1, 1 - distance / len(text)), to the nearest hundredth.
NearestWeight(m) ==
    IF 10 * (m.length - m.distance) <= m.length
    THEN m.weight = MinWeight
    ELSE 2 * Abs(m.weight * m.length - WeightScale * (m.length - m.distance))
           <= m.length

WeightInRange(ms) == \A i \in DOMAIN ms : ms[i].weight \in 0..WeightScale
CloserIsNotLighter(ms) ==
    \A i, j \in DOMAIN ms :
        (/\ ms[i].found /\ ms[j].found
         /\ ms[i].length = ms[j].length
         /\ ms[i].distance <= ms[j].distance)
        => ms[i].weight >= ms[j].weight
NotFoundGivesDefault(ms) ==
    \A i \in DOMAIN ms :
        (ms[i].co_occurrence /\ ~ms[i].found) => ms[i].weight = DefaultWeight

\* C19, as stated: every edge in edges has a weight in [0,1]; the weight of a
\* co-occurrence edge is max(0.1, 1 - |pos1 - pos2| / len(text)) on the first
\* occurrences of the two lower-cased names, so a smaller distance never gives
\* a smaller weight, and it is 0.5 when a name is not found in the text.
C19_AsStated ==
    LET ms == Measures
    IN /\ WeightInRange(ms)
       /\ \A i \in DOMAIN ms : ms[i].found => ExactWeight(ms[i])
       /\ CloserIsNotLighter(ms)
       /\ NotFoundGivesDefault(ms)

\* C19, as the code has it: the same, with the weight of a co-occurrence edge
\* rounded to two decimals.
C19_WeightRoundedToHundredths ==
    LET ms == Measures
    IN /\ WeightInRange(ms)
       /\ \A i \in DOMAIN ms : ms[i].found => NearestWeight(ms[i])
       /\ CloserIsNotLighter(ms)
       /\ NotFoundGivesDefault(ms)

\* Two episodes: one whose two names are five characters apart in a text of
\* seven (1 - 5/7, stored as 0.29), and one where the stored name of a merged
\* entity does not occur in the text (0.5).
C19_Witness ==
    LET ms == Measures
    IN /\ \E i \in DOMAIN ms :
            ms[i].found /\ ms[i].length = 7 /\ ms[i].distance = 5 /\ ms[i].weight = 29
       /\ \E i \in DOMAIN ms :
            ms[i].co_occurrence /\ ~ms[i].found /\ ms[i].weight = DefaultWeight

\* C20: every relation edge links two different entities: no edge in edges has
\* source_id equal to target_id, after any sequence of ingest_episode calls and
\* for any text, including text in which the same name is matched more than
\* once.
C20_NoSelfEdges ==
    \A i \in DOMAIN edges : edges[i].source_id # edges[i].target_id

(***************************************************************************)
(* Claims about calculate_relevance, checked under RelSpec.                *)
(***************************************************************************)
\* The importance weights the claim lists, in tenths.
ClaimedWeight(importance) ==
    CASE importance = "critical" -> 10
      [] importance = "high" -> 9
      [] importance = "medium" -> 7
      [] importance = "low" -> 5
      [] importance = "transient" -> 1

\* 10 * 20^days_old: what the exact values are fractions of.
RECURSIVE Denominator(_)
Denominator(days_old) == IF days_old = 0 THEN 10 ELSE 20 * Denominator(days_old - 1)
RECURSIVE Nineteens(_)
Nineteens(days_old) == IF days_old = 0 THEN 1 ELSE 19 * Nineteens(days_old - 1)

\* min(0.95^days_old * weight + min(0.1 * accessed_count, 0.5), 1.0), as a
\* fraction of Denominator(days_old).
ClaimedRelevance(importance, accessed_count, days_old) ==
    LET sum == Nineteens(days_old) * ClaimedWeight(importance)
                 + (IF accessed_count < 5 THEN accessed_count ELSE 5)
                     * (Denominator(days_old) \div 10)
    IN IF sum < Denominator(days_old) THEN sum ELSE Denominator(days_old)

C22_CriticalStaysRelevant ==
    (rel_calls >= 1 /\ rel_last.days_old = TestAge /\ rel_last.accessed_count = 0) =>
        /\ rel_memory.importance = "critical" => rel_last.upper > 8 * (Million \div 10)
        /\ rel_memory.importance = "transient" => rel_last.upper < 2 * (Million \div 10)

(***************************************************************************)
(* Claims about the outcome of a sync, checked under BridgeSpec.           *)
(***************************************************************************)
\* A step in which a sync_notion_to_zep call that ran returns its result.
SyncReturns == bridge_now' = bridge_now + 1

NewMemoryId == mem_stats'.memories_created
AddedTo(session, session_after) ==
    /\ Len(session_after) = Len(session) + 1
    /\ SubSeq(session_after, 1, Len(session)) = session
    /\ session_after[Len(session_after)].memory_id = NewMemoryId
    /\ session_after[Len(session_after)].importance = memory_cache'[NewMemoryId].importance

C25_OneEpisodePerCall == Cardinality(DOMAIN episodes) = ingest_calls

NoDuplicates(list) == \A i, j \in DOMAIN list : list[i] = list[j] => i = j

\* C26: for every entity in the graph, episode_ids contains each episode id at
\* most once, so its length equals the number of episodes that mentioned the
\* entity, after any sequence of ingest_episode calls.
C26_EpisodeIdsWithoutDuplicates ==
    \A id \in DOMAIN entities : NoDuplicates(entities[id].episode_ids)

(***************************************************************************)
(* Claims about the agent's protocols and cloud sync, under AgentSpec.     *)
(***************************************************************************)
\* The attribute that holds the manager of a protocol.
ManagerOf(p) ==
    CASE p = "a2a" -> a2a_manager
      [] p = "mcp" -> mcp_manager
      [] OTHER -> graphiti_engine

\* C27: whenever active_protocols marks a protocol (a2a, mcp, graphiti)
\* inactive, by configuration or because its initialization failed, the
\* corresponding manager is None, so process_message never routes a message to
\* it and health_check reports it as 'disabled'.
C27_InactiveProtocolHasNoManager ==
    \A p \in Protocols : ~active_protocols[p] => ManagerOf(p) = "none"


(***************************************************************************)
(* C28                                                                     *)
(***************************************************************************)
\* C28: at most one sync_with_cloud is suspended inside the sync body at a
\* time, whatever process_message calls run in between.  sync_with_cloud
\* tests state = SYNCING, and process_message overwrites state while the
\* first sync is suspended.
C28_OneSyncWithCloudInFlight == syncs_in_flight <= 1


(***************************************************************************)
(* C29                                                                     *)
(***************************************************************************)
\* The positions of the primary session that hold a copy of record m.
CopiesInPrimary(m) == { j \in DOMAIN zep_primary : zep_primary[j] = m }

\* C29: however often consolidate_memories runs, a record of the working
\* session has at most one copy in the primary session.  The promotion loop
\* copies every HIGH or CRITICAL record it fetches and leaves the record in
\* the working session without a mark.
C29_PromotedAtMostOnce ==
    \A i \in DOMAIN zep_working : Cardinality(CopiesInPrimary(zep_working[i])) <= 1


(***************************************************************************)
(* C30                                                                     *)
(***************************************************************************)
\* A send_task_to_agent call returns.
SendReturns == a2a_calls' = a2a_calls + 1

\* The status of a returned task: in_progress after an HTTP 200 reply, failed
\* after any other reply, pending when the target is not a remote agent.
ReturnedStatusFollowsReply ==
    [][(SendReturns /\ a2a_last'.returned) =>
          /\ a2a_last'.task_id \in DOMAIN active_tasks'
          /\ active_tasks'[a2a_last'.task_id].status = a2a_last'.status
          /\ a2a_last'.reply = "200" => a2a_last'.status = "in_progress"
          /\ a2a_last'.reply = "other" => a2a_last'.status = "failed"
          /\ a2a_last'.target_agent \notin RemoteAgents => a2a_last'.status = "pending"]_vars

\* C30: a send_task_to_agent call that returns None (unknown target agent, or
\* an exception while sending) leaves active_tasks as it was.  The task is
\* stored in active_tasks before the POST, and the except clause does not
\* take it out.
C30_NoneLeavesActiveTasksUnchanged ==
    [][(SendReturns /\ ~a2a_last'.returned) => active_tasks' = active_tasks]_vars

====
